---------------------------- MODULE Spec2Model ----------------------------
(***************************************************************************)
(* A model of the emoji registry of apparebit/emo (src/config/emo.py):     *)
(* name normalization (to_name), group normalization (to_group,            *)
(* to_subgroup), the codepoint codec, the line-oriented RegistryParser,    *)
(* Registry.select and Registry.write_latex_table with the table entries   *)
(* of LatexCommand; and of the patch that removes the /Group of the        *)
(* page of a one-page PDF document in qpdf's JSON format                   *)
(* (remove_page_group_object, and degroup of scripts/fix-page-groups.py)   *)
(* with the two drivers that have documents patched.                       *)
(*                                                                         *)
(* Strings are sequences of atoms.  An atom is a piece of text: one        *)
(* separator or punctuation character, or a word.  The words are chosen    *)
(* so that every string has one decomposition into atoms and every         *)
(* occurrence of a phrase the code searches for starts and ends at an atom *)
(* boundary: no atom holds a separator, and no phrase word is a proper     *)
(* part of an atom or a concatenation of other atoms.  "darker" is         *)
(* <<"dark", "er">> and "darkest" is <<"dark", "est">>, so that the text   *)
(* "dark" inside "darker" is visible to a later substitution exactly as    *)
(* it is in Python.                                                        *)
(***************************************************************************)
EXTENDS Integers, Sequences, FiniteSets, TLC

(***************************************************************************)
(* Bounds of the model.                                                    *)
(***************************************************************************)
MaxLines == 6
MaxPieces == 4
MaxCalls == 2
MaxSelectors == 2

(***************************************************************************)
(* Python's Optional: None is the empty sequence, a value x is <<x>>.      *)
(***************************************************************************)
None == <<>>
Some(x) == <<x>>
Get(o) == o[1]

(***************************************************************************)
(* Python's dict: insertion-ordered, as a sequence of [k, v] records with  *)
(* pairwise distinct keys.  Assigning to a present key keeps its place.    *)
(***************************************************************************)
DictKeys(d) == [i \in 1..Len(d) |-> d[i].k]
DictHas(d, key) == \E i \in 1..Len(d) : d[i].k = key
DictGet(d, key) == d[CHOOSE i \in 1..Len(d) : d[i].k = key].v
DictSet(d, key, val) ==
    IF DictHas(d, key)
    THEN [i \in 1..Len(d) |-> IF d[i].k = key THEN [k |-> key, v |-> val] ELSE d[i]]
    ELSE Append(d, [k |-> key, v |-> val])

(***************************************************************************)
(* str.lower on the atoms of the model.                                    *)
(***************************************************************************)
LowerAtom(a) ==
    CASE a = "Man" -> "man"
      [] a = "Palm" -> "palm"
      [] a = "Up" -> "up"
      [] a = "Hand" -> "hand"
      [] a = "Medium" -> "medium"
      [] a = "Component" -> "component"
      [] a = "People" -> "people"
      [] a = "Body" -> "body"
      [] a = "Person" -> "person"
      [] a = "Hands" -> "hands"
      [] a = "ALL" -> "all"
      [] a = "NONDIVERSE" -> "nondiverse"
      [] OTHER -> a

lower(s) == [i \in 1..Len(s) |-> LowerAtom(s[i])]

(***************************************************************************)
(* PUNCTUATION and SEPARATORS, the two character classes of to_name.  The  *)
(* typographic quotes of PUNCTUATION are left out of the alphabet.         *)
(***************************************************************************)
PUNCTUATION == {"\"", "'", "&", "!", "(", ")", ",", ".", ":"}
SEPARATORS == {" ", "_", "-"}

\* re.sub(PUNCTUATION, '', s): every punctuation character is removed.
RECURSIVE PunctuationSub(_)
PunctuationSub(s) ==
    IF s = <<>> THEN <<>>
    ELSE IF Head(s) \in PUNCTUATION THEN PunctuationSub(Tail(s))
    ELSE <<Head(s)>> \o PunctuationSub(Tail(s))

\* re.sub(SEPARATORS, '-', s): every maximal run of separators becomes one hyphen.
RECURSIVE SeparatorsSub(_)
SeparatorsSub(s) ==
    IF s = <<>> THEN <<>>
    ELSE IF Head(s) \in SEPARATORS
    THEN IF Len(s) > 1 /\ s[2] \in SEPARATORS
         THEN SeparatorsSub(Tail(s))
         ELSE <<"-">> \o SeparatorsSub(Tail(s))
    ELSE <<Head(s)>> \o SeparatorsSub(Tail(s))

\* str.replace(old, new): the non-overlapping occurrences, leftmost first.
RECURSIVE replace(_, _, _)
replace(s, old, new) ==
    IF Len(s) < Len(old) THEN s
    ELSE IF SubSeq(s, 1, Len(old)) = old
    THEN new \o replace(SubSeq(s, Len(old) + 1, Len(s)), old, new)
    ELSE <<Head(s)>> \o replace(Tail(s), old, new)

SkinTone == <<"-", "skin", "-", "tone">>

(***************************************************************************)
(* RENAMING, the name overrides, restricted to the keys that can be        *)
(* written with the atoms of the model.                                    *)
(***************************************************************************)
RENAMING ==
    << [k |-> <<"palm", "-", "down", "-", "hand">>,
        v |-> <<"palm", "-", "down">>],
       [k |-> <<"palm", "-", "down", "-", "hand", "-", "dark", "est">>,
        v |-> <<"palm", "-", "down", "-", "dark", "est">>],
       [k |-> <<"palm", "-", "down", "-", "hand", "-", "dark", "er">>,
        v |-> <<"palm", "-", "down", "-", "dark", "er">>],
       [k |-> <<"palm", "-", "down", "-", "hand", "-", "medium">>,
        v |-> <<"palm", "-", "down", "-", "medium">>],
       [k |-> <<"palm", "-", "down", "-", "hand", "-", "light", "er">>,
        v |-> <<"palm", "-", "down", "-", "light", "er">>],
       [k |-> <<"palm", "-", "down", "-", "hand", "-", "light", "est">>,
        v |-> <<"palm", "-", "down", "-", "light", "est">>],
       [k |-> <<"palm", "-", "up", "-", "hand">>,
        v |-> <<"palm", "-", "up">>],
       [k |-> <<"palm", "-", "up", "-", "hand", "-", "dark", "est">>,
        v |-> <<"palm", "-", "up", "-", "dark", "est">>],
       [k |-> <<"palm", "-", "up", "-", "hand", "-", "dark", "er">>,
        v |-> <<"palm", "-", "up", "-", "dark", "er">>],
       [k |-> <<"palm", "-", "up", "-", "hand", "-", "medium">>,
        v |-> <<"palm", "-", "up", "-", "medium">>],
       [k |-> <<"palm", "-", "up", "-", "hand", "-", "light", "er">>,
        v |-> <<"palm", "-", "up", "-", "light", "er">>],
       [k |-> <<"palm", "-", "up", "-", "hand", "-", "light", "est">>,
        v |-> <<"palm", "-", "up", "-", "light", "est">>],
       [k |-> <<"keycap", "-", "#">>, v |-> <<"keycap", "-", "hash">>],
       [k |-> <<"keycap", "-", "*">>, v |-> <<"keycap", "-", "star">>] >>

\* The five substitutions with the general ones first.
SkinToneSubsGeneralFirst(n0) ==
    LET n1 == replace(n0, <<"dark">> \o SkinTone, <<"dark", "est">>)
        n2 == replace(n1, <<"light">> \o SkinTone, <<"light", "est">>)
        n3 == replace(n2, <<"medium">> \o SkinTone, <<"medium">>)
        n4 == replace(n3, <<"medium", "-", "dark">> \o SkinTone, <<"dark", "er">>)
        n5 == replace(n4, <<"medium", "-", "light">> \o SkinTone, <<"light", "er">>)
    IN n5

\* The five skin tone substitutions of to_name, in the order of the code.
SkinToneSubs(n0) ==
    LET n1 == replace(n0, <<"medium", "-", "dark">> \o SkinTone, <<"dark", "er">>)
        n2 == replace(n1, <<"medium", "-", "light">> \o SkinTone, <<"light", "er">>)
        n3 == replace(n2, <<"medium">> \o SkinTone, <<"medium">>)
        n4 == replace(n3, <<"dark">> \o SkinTone, <<"dark", "est">>)
        n5 == replace(n4, <<"light">> \o SkinTone, <<"light", "est">>)
    IN n5

\* to_name: lower, strip punctuation, collapse separators, skin tones, overrides.
to_name(value) ==
    LET name == SkinToneSubs(SeparatorsSub(PunctuationSub(lower(value))))
    IN IF DictHas(RENAMING, name) THEN DictGet(RENAMING, name) ELSE name


(***************************************************************************)
(* Group and subgroup names.                                               *)
(***************************************************************************)
And == <<"-", "and", "-">>

SHORT_GROUPS ==
    << [k |-> <<"animals">>, v |-> <<"animals">> \o And \o <<"nature">>],
       [k |-> <<"body">>, v |-> <<"people">> \o And \o <<"body">>],
       [k |-> <<"drink">>, v |-> <<"food">> \o And \o <<"drink">>],
       [k |-> <<"emotion">>, v |-> <<"smileys">> \o And \o <<"emotion">>],
       [k |-> <<"food">>, v |-> <<"food">> \o And \o <<"drink">>],
       [k |-> <<"nature">>, v |-> <<"animals">> \o And \o <<"nature">>],
       [k |-> <<"people">>, v |-> <<"people">> \o And \o <<"body">>],
       [k |-> <<"places">>, v |-> <<"travel">> \o And \o <<"places">>],
       [k |-> <<"smileys">>, v |-> <<"smileys">> \o And \o <<"emotion">>],
       [k |-> <<"travel">>, v |-> <<"travel">> \o And \o <<"places">>] >>

\* The number of leading spaces of s.
RECURSIVE Spaces(_)
Spaces(s) == IF s # <<>> /\ Head(s) = " " THEN 1 + Spaces(Tail(s)) ELSE 0

\* re.sub(AMPERSAND, '-and-', s), AMPERSAND being '[ ]*&[ ]*'.
RECURSIVE AmpersandSub(_)
AmpersandSub(s) ==
    IF s = <<>> THEN <<>>
    ELSE LET n == Spaces(s)
         IN IF n < Len(s) /\ s[n + 1] = "&"
            THEN LET rest == SubSeq(s, n + 2, Len(s))
                 IN And \o AmpersandSub(SubSeq(rest, Spaces(rest) + 1, Len(rest)))
            ELSE <<Head(s)>> \o AmpersandSub(Tail(s))

to_group(group) ==
    LET g == lower(group)
    IN AmpersandSub(IF DictHas(SHORT_GROUPS, g) THEN DictGet(SHORT_GROUPS, g) ELSE g)

to_subgroup(subgroup) == AmpersandSub(lower(subgroup))

(***************************************************************************)
(* Codepoints.  A token is a sequence of hexadecimal digits, each a number *)
(* in 0..15; the parser hands to_codepoints the tokens of a data line.     *)
(***************************************************************************)
RECURSIVE to_codepoint(_)
to_codepoint(cp) ==
    IF cp = <<>> THEN 0
    ELSE 16 * to_codepoint(SubSeq(cp, 1, Len(cp) - 1)) + cp[Len(cp)]

to_codepoints(value) == [i \in 1..Len(value) |-> to_codepoint(value[i])]

(***************************************************************************)
(* Status and Emoji.  The display string is derived from the codepoints    *)
(* and is not carried.                                                     *)
(***************************************************************************)
COMPONENT == "component"
FULLY_QUALIFIED == "fully-qualified"
MINIMALLY_QUALIFIED == "minimally-qualified"
UNQUALIFIED == "unqualified"
Status == {COMPONENT, FULLY_QUALIFIED, MINIMALLY_QUALIFIED, UNQUALIFIED}

\* float(version) succeeds on a text of digits and dots iff it has a digit and
\* at most one dot.
FloatOk(version) ==
    /\ \E i \in 1..Len(version) : version[i] # "."
    /\ Cardinality({i \in 1..Len(version) : version[i] = "."}) <= 1

\* Emoji.of
EmojiOf(name, value, status, version) ==
    [name |-> to_name(name), codepoints |-> to_codepoints(value),
     status |-> status, version |-> version]

is_component(emoji) == emoji.status = COMPONENT
is_fully_qualified(emoji) == emoji.status = FULLY_QUALIFIED

(***************************************************************************)
(* The source file.  A line is a record: a group line and a subgroup line  *)
(* carry the text after the prefix, a data line the fields its regular     *)
(* expression captures, a comment line (or blank line) and a malformed     *)
(* line (neither empty, comment nor emoji) nothing.                        *)
(***************************************************************************)
Line(kind, name, codepoints, status, version) ==
    [kind |-> kind, name |-> name, codepoints |-> codepoints,
     status |-> status, version |-> version]

GroupLine(name) == Line("group", name, <<>>, "", <<>>)
SubgroupLine(name) == Line("subgroup", name, <<>>, "", <<>>)
CommentLine == Line("comment", <<>>, <<>>, "", <<>>)
MalformedLine == Line("malformed", <<>>, <<>>, "", <<>>)
DataLine(codepoints, status, name) == Line("data", name, codepoints, status, <<"1", ".", "0">>)

\* The texts of the model's source files.
GroupTexts == { <<"Component">>, <<"People", " ", "&", " ", "Body">> }
SubgroupTexts == { <<"person">>, <<"Hands", " ", "&", " ", "fingers">> }
\* 1F600 and 1F601
CodepointTexts == { << <<1, 15, 6, 0, 0>> >>, << <<1, 15, 6, 0, 1>> >> }
NameTexts == { <<"Man">>, <<"palm", " ", "up", " ", "hand">> }

Lines ==
    {GroupLine(t) : t \in GroupTexts}
    \cup {SubgroupLine(t) : t \in SubgroupTexts}
    \cup {CommentLine, MalformedLine}
    \cup {DataLine(c, s, n) : c \in CodepointTexts, s \in Status, n \in NameTexts}
    \* 01F600, the codepoint 1F600 written with a leading zero
    \cup {DataLine(<< <<0, 1, 15, 6, 0, 0>> >>, FULLY_QUALIFIED, <<"man">>)}
    \* a data line whose version E1.0.1 matches [0-9.]+ and is no number
    \cup {Line("data", <<"man">>, << <<1, 15, 6, 0, 1>> >>, FULLY_QUALIFIED,
               <<"1", ".", "0", ".", "1">>)}

(***************************************************************************)
(* RegistryParser.  _group is the dict that _group_table holds under       *)
(* _group_name (setdefault returns the stored dict itself), so the model   *)
(* reads and writes it as group_table[group_name]; _group is None exactly  *)
(* when _group_name is.                                                    *)
(*   pc       where run() is: "run" in the read loop, "repoint" in the     *)
(*            final loop over the codepoint table, "done" after return,    *)
(*            "error" after an exception left run()                        *)
(*   cursor   the position of the final loop in the codepoint table        *)
(*   error    None, or the exception: its message and the line number the  *)
(*            message carries (None if it carries none)                    *)
(*   source   the lines read so far                                        *)
(*   registry None, or the Registry that Registry.from_file returned       *)
(***************************************************************************)
VARIABLES lineno, name_table, codepoint_table, group_table, group_name,
          subgroup_name, subgroup, pc, cursor, error, source, registry

(***************************************************************************)
(* A caller of to_name: value is the text it normalizes, names the results *)
(* of the calls made so far (to_name(value), then to_name of that).        *)
(***************************************************************************)
VARIABLES value, names

(***************************************************************************)
(* A caller of Registry.select: selectors are the arguments of the last    *)
(* call (None before the first), selection the list it returned (None if   *)
(* it returned none), select_error the KeyError it raised (None if it      *)
(* raised none): its message and the selector the message quotes.          *)
(***************************************************************************)
VARIABLES selectors, selection, select_error

(***************************************************************************)
(* The call of Registry.write_latex_table that main makes after select.    *)
(*   existing         the emoji of create_inventory: those the graphics    *)
(*                    directory has a PDF file for                         *)
(*   dry_run          options.dry_run                                      *)
(*   emoji_selection  None, or the argument of the call                    *)
(*   written          None, or the lines the call wrote to the table file  *)
(*   all_emoji        None, or the list the call returned                  *)
(***************************************************************************)
VARIABLES existing, dry_run, emoji_selection, written, all_emoji

(***************************************************************************)
(* remove_page_group_object at work on a document in qpdf's JSON format.   *)
(*   document     the object map document['qpdf'][1] the patch works on    *)
(*   original     the object map as it was when the patch was called       *)
(*   at           where the patch is: "idle" before a call, "trailer",     *)
(*                "root", "pages", "page", "group" before the statement    *)
(*                that resolves or tests it, "returned", "raised"          *)
(*   trailer, root, pages   the locals of these names (None while unset)   *)
(*   page         the local page: the Page object is part of the document, *)
(*                so the model holds the key of the object it is           *)
(*   changed      None, or whether the call returned a document            *)
(*   patch_error  None, or the exception the call raised                   *)
(*   reports      the outcomes of the calls completed so far: "changed",   *)
(*                "unchanged" or "raised"                                  *)
(* and the driver that has the documents patched:                          *)
(*   driver       "fix-page-groups" (main of scripts/fix-page-groups.py),  *)
(*                "emo" (main of config/emo.py), or "none" for a caller    *)
(*                of remove_page_group with one document                   *)
(*   files        the documents of the driver's PDF arguments or requested *)
(*                emoji, in order                                          *)
(*   next_file    how many of them the driver's loop has taken up          *)
(*   driver_at    "loop" while the driver runs, "exit" once main is left   *)
(***************************************************************************)
VARIABLES document, original, at, trailer, root, pages, page, changed,
          patch_error, reports, driver, files, next_file, driver_at

parserVars == <<lineno, name_table, codepoint_table, group_table, group_name,
                subgroup_name, subgroup, pc, cursor, error, source, registry>>
nameVars == <<value, names>>
selectVars == <<selectors, selection, select_error>>
tableVars == <<existing, dry_run, emoji_selection, written, all_emoji>>
locals == <<trailer, root, pages, page>>
driverVars == <<driver, files, next_file, driver_at>>
patchVars == <<document, original, at, locals, changed, patch_error, reports,
               driverVars>>
vars == <<parserVars, nameVars, selectVars, tableVars, patchVars>>

tables == <<name_table, codepoint_table, group_table>>
position == <<group_name, subgroup_name, subgroup>>

\* RegistryParser.__init__
ParserInit ==
    /\ lineno = 0
    /\ name_table = <<>>
    /\ codepoint_table = <<>>
    /\ group_table = <<>>
    /\ group_name = None
    /\ subgroup_name = None
    /\ subgroup = None

RunInit ==
    /\ ParserInit
    /\ pc = "run"
    /\ cursor = 0
    /\ error = None
    /\ source = <<>>
    /\ registry = None

\* write_latex_table has not been called.
TableIdle ==
    /\ existing = {}
    /\ dry_run = FALSE
    /\ emoji_selection = None
    /\ written = None
    /\ all_emoji = None

\* No document is being patched.
PatchIdle ==
    /\ document = <<>>
    /\ original = <<>>
    /\ at = "idle"
    /\ trailer = None
    /\ root = None
    /\ pages = None
    /\ page = None
    /\ changed = None
    /\ patch_error = None
    /\ reports = <<>>
    /\ driver = "none"
    /\ files = <<>>
    /\ next_file = 0
    /\ driver_at = "loop"

Idle ==
    /\ value = <<>>
    /\ names = <<>>
    /\ selectors = None
    /\ selection = None
    /\ select_error = None
    /\ TableIdle
    /\ PatchIdle

Init == RunInit /\ Idle

\* RegistryParser.error: the message carries self._lineno.
ParserError(n, msg) == Some([lineno |-> Some(n), msg |-> msg])
\* An exception raised by a callee of run() that does not go through error().
OtherError(msg) == Some([lineno |-> None, msg |-> msg])

\* parse_line: None, ('group', name), ('subgroup', name), an Emoji, or an exception.
parse_line(line) ==
    CASE line.kind = "group" -> [type |-> "group", name |-> to_group(line.name)]
      [] line.kind = "subgroup" -> [type |-> "subgroup", name |-> to_subgroup(line.name)]
      [] line.kind = "comment" -> [type |-> "none"]
      [] line.kind = "malformed" ->
            [type |-> "error", msg |-> "neither empty, comment, or emoji"]
      [] line.kind = "data" ->
            IF FloatOk(line.version)
            THEN [type |-> "emoji",
                  emoji |-> EmojiOf(line.name, line.codepoints, line.status, line.version)]
            ELSE [type |-> "raise", msg |-> "could not convert string to float"]

\* maybe_exit_subgroup, as the group table it leaves.
ExitSubgroup ==
    IF subgroup_name # None
    THEN DictSet(group_table, Get(group_name),
                 DictSet(DictGet(group_table, Get(group_name)),
                         Get(subgroup_name), Get(subgroup)))
    ELSE group_table

\* A duplicate check that looks at component and fully-qualified emoji only.
DuplicateCodepointsIfListed(emoji) ==
    /\ is_component(emoji) \/ is_fully_qualified(emoji)
    /\ DictHas(codepoint_table, emoji.codepoints)

\* emoji.codepoints in self._codepoint_table
DuplicateCodepoints(emoji) == DictHas(codepoint_table, emoji.codepoints)

\* A duplicate check that compares a name with the names of the same status only.
DuplicateNameOfStatus(emoji) ==
    \E i \in 1..Len(name_table) :
        name_table[i].k = emoji.name /\ name_table[i].v.status = emoji.status

\* emoji.name in self._name_table
DuplicateName(emoji) == DictHas(name_table, emoji.name)

\* A comparison with the group name as the source file writes it.
InComponentGroupAsWritten == group_name = Some(<<"Component">>)

\* self._group_name == 'component'
InComponentGroup == group_name = Some(<<"component">>)

\* Checks that ask for a subgroup only when the emoji goes into one.
AddEmojiErrorIfListed(emoji) ==
    IF subgroup_name = None /\ (is_component(emoji) \/ is_fully_qualified(emoji))
    THEN "emoji without prior group and subgroup declaration"
    ELSE IF DuplicateCodepoints(emoji)
    THEN "duplicate emoji by codepoints"
    ELSE IF is_component(emoji) /\ DuplicateName(emoji)
    THEN "duplicate declaration of component emoji by name"
    ELSE IF is_fully_qualified(emoji) /\ DuplicateName(emoji)
    THEN "duplicate declaration of fully qualified emoji by name"
    ELSE IF InComponentGroup /\ ~is_component(emoji)
    THEN "component group with non-component emoji"
    ELSE IF is_component(emoji) /\ ~InComponentGroup
    THEN "component emoji outside component group"
    ELSE ""

\* Checks that look for the fully-qualified peer when the line is registered.
AddEmojiErrorEager(emoji) ==
    IF subgroup_name = None
    THEN "emoji without prior group and subgroup declaration"
    ELSE IF DuplicateCodepoints(emoji)
    THEN "duplicate emoji by codepoints"
    ELSE IF is_component(emoji) /\ DuplicateName(emoji)
    THEN "duplicate declaration of component emoji by name"
    ELSE IF is_fully_qualified(emoji) /\ DuplicateName(emoji)
    THEN "duplicate declaration of fully qualified emoji by name"
    ELSE IF InComponentGroup /\ ~is_component(emoji)
    THEN "component group with non-component emoji"
    ELSE IF is_component(emoji) /\ ~InComponentGroup
    THEN "component emoji outside component group"
    ELSE IF ~is_component(emoji) /\ ~is_fully_qualified(emoji) /\ ~DuplicateName(emoji)
    THEN "no fully qualified emoji"
    ELSE ""

\* add_emoji's checks, in the order of the code: the message of the first that
\* fails, "" if none does.
AddEmojiError(emoji) ==
    IF subgroup_name = None
    THEN "emoji without prior group and subgroup declaration"
    ELSE IF DuplicateCodepoints(emoji)
    THEN "duplicate emoji by codepoints"
    ELSE IF is_component(emoji) /\ DuplicateName(emoji)
    THEN "duplicate declaration of component emoji by name"
    ELSE IF is_fully_qualified(emoji) /\ DuplicateName(emoji)
    THEN "duplicate declaration of fully qualified emoji by name"
    ELSE IF InComponentGroup /\ ~is_component(emoji)
    THEN "component group with non-component emoji"
    ELSE IF is_component(emoji) /\ ~InComponentGroup
    THEN "component emoji outside component group"
    ELSE ""

\* An exception handler that hands the tables built so far to the caller.
RaisePartial(e) ==
    /\ pc' = "error"
    /\ error' = e
    /\ registry' = Some([name_table |-> name_table,
                         codepoint_table |-> codepoint_table,
                         group_table |-> group_table])
    /\ UNCHANGED cursor

\* An exception leaves run() and Registry.from_file: no Registry is made.
Raise(e) ==
    /\ pc' = "error"
    /\ error' = e
    /\ UNCHANGED <<cursor, registry>>

\* An add_emoji that records every emoji by name, whatever its status.
add_emoji_by_name(emoji) ==
    IF AddEmojiError(emoji) # ""
    THEN /\ Raise(ParserError(lineno', AddEmojiError(emoji)))
         /\ UNCHANGED <<tables, position>>
    ELSE /\ codepoint_table' = DictSet(codepoint_table, emoji.codepoints, emoji)
         /\ name_table' = DictSet(name_table, emoji.name, emoji)
         /\ IF is_component(emoji) \/ is_fully_qualified(emoji)
            THEN subgroup' = Some(Append(Get(subgroup), emoji))
            ELSE UNCHANGED subgroup
         /\ UNCHANGED <<group_table, group_name, subgroup_name, pc, cursor, error,
                        registry>>

\* add_emoji
add_emoji(emoji) ==
    IF AddEmojiError(emoji) # ""
    THEN /\ Raise(ParserError(lineno', AddEmojiError(emoji)))
         /\ UNCHANGED <<tables, position>>
    ELSE /\ codepoint_table' = DictSet(codepoint_table, emoji.codepoints, emoji)
         /\ IF is_component(emoji) \/ is_fully_qualified(emoji)
            THEN /\ name_table' = DictSet(name_table, emoji.name, emoji)
                 /\ subgroup' = Some(Append(Get(subgroup), emoji))
            ELSE UNCHANGED <<name_table, subgroup>>
         /\ UNCHANGED <<group_table, group_name, subgroup_name, pc, cursor, error,
                        registry>>

\* An enter_group that run() calls without maybe_exit_subgroup before it: the
\* assertion fails while a subgroup is in progress.
enter_group_in_subgroup(name) ==
    IF subgroup_name # None
    THEN /\ Raise(OtherError("AssertionError"))
         /\ UNCHANGED <<tables, position>>
    ELSE /\ group_name' = Some(name)
         /\ group_table' = IF DictHas(group_table, name) THEN group_table
                           ELSE Append(group_table, [k |-> name, v |-> <<>>])
         /\ UNCHANGED <<name_table, codepoint_table, subgroup_name, subgroup, pc,
                        cursor, error, registry>>

\* An enter_group that stores a new dict under the name whether or not the
\* group table has one.
enter_group_fresh(name) ==
    /\ group_name' = Some(name)
    /\ group_table' = DictSet(ExitSubgroup, name, <<>>)
    /\ subgroup_name' = None
    /\ subgroup' = None
    /\ UNCHANGED <<name_table, codepoint_table, pc, cursor, error, registry>>

\* enter_group, after the maybe_exit_subgroup that run() calls first
enter_group(name) ==
    /\ group_name' = Some(name)
    /\ group_table' = IF DictHas(ExitSubgroup, name) THEN ExitSubgroup
                      ELSE Append(ExitSubgroup, [k |-> name, v |-> <<>>])
    /\ subgroup_name' = None
    /\ subgroup' = None
    /\ UNCHANGED <<name_table, codepoint_table, pc, cursor, error, registry>>

\* An enter_subgroup whose test is `not self._group`: a group that has no
\* subgroup yet counts as no group.
enter_subgroup_if_nonempty(name) ==
    IF group_name = None \/ DictGet(ExitSubgroup, Get(group_name)) = <<>>
    THEN /\ Raise(ParserError(lineno', "subgroup without prior group declaration"))
         /\ UNCHANGED <<tables, position>>
    ELSE /\ group_table' = ExitSubgroup
         /\ subgroup_name' = Some(name)
         /\ subgroup' = Some(IF DictHas(DictGet(ExitSubgroup, Get(group_name)), name)
                             THEN DictGet(DictGet(ExitSubgroup, Get(group_name)), name)
                             ELSE <<>>)
         /\ UNCHANGED <<name_table, codepoint_table, group_name, pc, cursor, error,
                        registry>>

\* enter_subgroup, after the maybe_exit_subgroup that run() calls first
enter_subgroup(name) ==
    IF group_name = None
    THEN /\ Raise(ParserError(lineno', "subgroup without prior group declaration"))
         /\ UNCHANGED <<tables, position>>
    ELSE /\ group_table' = ExitSubgroup
         /\ subgroup_name' = Some(name)
         /\ subgroup' = Some(IF DictHas(DictGet(ExitSubgroup, Get(group_name)), name)
                             THEN DictGet(DictGet(ExitSubgroup, Get(group_name)), name)
                             ELSE <<>>)
         /\ UNCHANGED <<name_table, codepoint_table, group_name, pc, cursor, error,
                        registry>>

\* One iteration of the read loop of run(): a line is read and handled.  The
\* source file is one of at most MaxLines lines, each taken from lines.
ReadLineOf(lines) ==
    /\ pc = "run"
    /\ lineno < MaxLines
    /\ \E line \in lines :
        /\ lineno' = lineno + 1
        /\ source' = Append(source, line)
        /\ LET item == parse_line(line)
           IN CASE item.type = "none" -> UNCHANGED <<tables, position, pc, cursor, error, registry>>
                [] item.type = "error" ->
                      /\ Raise(ParserError(lineno', item.msg))
                      /\ UNCHANGED <<tables, position>>
                [] item.type = "raise" ->
                      /\ Raise(OtherError(item.msg))
                      /\ UNCHANGED <<tables, position>>
                [] item.type = "emoji" -> add_emoji(item.emoji)
                [] item.type = "group" -> enter_group(item.name)
                [] item.type = "subgroup" -> enter_subgroup(item.name)

ReadLine == ReadLineOf(Lines)

\* An end of file that leaves the subgroup in progress out of the group table.
EndOfFileOpen ==
    /\ pc = "run"
    /\ subgroup_name' = None
    /\ subgroup' = None
    /\ pc' = "repoint"
    /\ cursor' = 1
    /\ UNCHANGED <<lineno, tables, group_name, error, source, registry>>

\* The end of the file: the read loop ends with maybe_exit_subgroup.
EndOfFile ==
    /\ pc = "run"
    /\ group_table' = ExitSubgroup
    /\ subgroup_name' = None
    /\ subgroup' = None
    /\ pc' = "repoint"
    /\ cursor' = 1
    /\ UNCHANGED <<lineno, name_table, codepoint_table, group_name, error, source,
                   registry>>

\* A final loop that leaves the slot as it is.
RepointTargetSelf(emoji) == emoji

\* The entry the final loop stores in the slot of emoji: name_table.get(emoji.name)
RepointTarget(emoji) == DictGet(name_table, emoji.name)

\* One iteration of the final loop of run() over the codepoint table.
Repoint ==
    /\ pc = "repoint"
    /\ cursor <= Len(codepoint_table)
    /\ LET identifier == codepoint_table[cursor].k
           emoji == codepoint_table[cursor].v
       IN IF is_component(emoji) \/ is_fully_qualified(emoji)
          THEN /\ cursor' = cursor + 1
               /\ UNCHANGED <<codepoint_table, pc, error, registry>>
          ELSE IF ~DictHas(name_table, emoji.name)
          THEN /\ Raise(ParserError(lineno, "no fully qualified emoji"))
               /\ UNCHANGED codepoint_table
          ELSE /\ codepoint_table' =
                      DictSet(codepoint_table, identifier, RepointTarget(emoji))
               /\ cursor' = cursor + 1
               /\ UNCHANGED <<pc, error, registry>>
    /\ UNCHANGED <<lineno, name_table, group_table, position, source>>

\* run() returns the three tables and Registry.from_file wraps them.
Return ==
    /\ pc = "repoint"
    /\ cursor > Len(codepoint_table)
    /\ pc' = "done"
    /\ registry' = Some([name_table |-> name_table,
                         codepoint_table |-> codepoint_table,
                         group_table |-> group_table])
    /\ UNCHANGED <<lineno, tables, position, cursor, error, source>>

Next ==
    \/ ReadLine /\ UNCHANGED <<nameVars, selectVars, tableVars, patchVars>>
    \/ EndOfFile /\ UNCHANGED <<nameVars, selectVars, tableVars, patchVars>>
    \/ Repoint /\ UNCHANGED <<nameVars, selectVars, tableVars, patchVars>>
    \/ Return /\ UNCHANGED <<nameVars, selectVars, tableVars, patchVars>>

Spec == Init /\ [][Next]_vars

(***************************************************************************)
(* Registry.  A registry is the record of the three tables that            *)
(* Registry.from_file made of run()'s result.                              *)
(***************************************************************************)
HAIR_MODIFIERS ==
    { <<"red", "-", "hair">>, <<"curly", "-", "hair">>, <<"white", "-", "hair">>,
      <<"bald">> }
SKIN_MODIFIERS ==
    { <<"dark", "est">>, <<"dark", "er">>, <<"medium">>, <<"light", "er">>,
      <<"light", "est">> }
GENDERS == { <<"man">>, <<"men">>, <<"woman">>, <<"women">> }

\* The atoms of a name that are not made of the letters a to z.
NonLetters == SEPARATORS \cup PUNCTUATION \cup {"#", "*", "::"}

\* A search for a modifier anywhere in the name, inside a word too.
HasModifierText(emoji) ==
    \E m \in HAIR_MODIFIERS \cup SKIN_MODIFIERS \cup GENDERS :
        \E i \in 1..Len(emoji.name) :
           /\ i + Len(m) - 1 <= Len(emoji.name)
           /\ SubSeq(emoji.name, i, i + Len(m) - 1) = m

\* GENDER_HAIR_SKIN.search(name): a modifier with no letter before or after it.
is_diverse(emoji) ==
    LET name == emoji.name
    IN \E m \in HAIR_MODIFIERS \cup SKIN_MODIFIERS \cup GENDERS :
         \E i \in 1..Len(name) :
            /\ i + Len(m) - 1 <= Len(name)
            /\ SubSeq(name, i, i + Len(m) - 1) = m
            /\ i = 1 \/ name[i - 1] \in NonLetters
            /\ i + Len(m) - 1 = Len(name) \/ name[i + Len(m)] \in NonLetters

\* The entries of the subgroups of a group, in the order of its keys.
RECURSIVE GroupEmoji(_)
GroupEmoji(group) ==
    IF group = <<>> THEN <<>> ELSE Head(group).v \o GroupEmoji(Tail(group))

\* An 'ALL' that takes the values of the name table, in the order of its keys.
NamedEmoji(reg) == [i \in 1..Len(reg.name_table) |-> reg.name_table[i].v]

\* 'ALL': the entries of every subgroup of every group of the group table.
RECURSIVE TableEmoji(_)
TableEmoji(group_tbl) ==
    IF group_tbl = <<>> THEN <<>>
    ELSE GroupEmoji(Head(group_tbl).v) \o TableEmoji(Tail(group_tbl))

AllEmoji(reg) == TableEmoji(reg.group_table)

\* non_diverse_people: group_table['people-and-body'] raises KeyError if absent.
PeopleAndBody == <<"people">> \o And \o <<"body">>
non_diverse_people(reg) ==
    SelectSeq(GroupEmoji(DictGet(reg.group_table, PeopleAndBody)),
              LAMBDA emoji : ~is_diverse(emoji))

\* str.split('::')
RECURSIVE split(_)
split(s) ==
    IF \A i \in 1..Len(s) : s[i] # "::" THEN <<s>>
    ELSE LET i == CHOOSE i \in 1..Len(s) :
                      s[i] = "::" /\ \A j \in 1..(i - 1) : s[j] # "::"
         IN <<SubSeq(s, 1, i - 1)>> \o split(SubSeq(s, i + 1, Len(s)))

is_subgroup_selector(identifier) == \E i \in 1..Len(identifier) : identifier[i] = "::"
split_subgroup_selector(identifier) == split(lower(identifier))

\* What one selector yields: the emoji it adds, or its KeyError: the message
\* and the selector the message quotes (None if it quotes none).
Selected(emoji) == [ok |-> TRUE, emoji |-> emoji, msg |-> "", selector |-> None]
KeyError(msg, quoted) == [ok |-> FALSE, emoji |-> <<>>, msg |-> msg, selector |-> quoted]

\* A lookup of the two names as the selector writes them, lowercased.
NamesAsWritten(group, sub) == <<group, sub>>

to_group_subgroup(group, sub) == <<to_group(group), to_subgroup(sub)>>

\* subgroup_from_selector
subgroup_from_selector(reg, selector) ==
    LET parts == split_subgroup_selector(selector)
    IN IF Len(parts) # 2 THEN KeyError("does not combine two names", Some(selector))
       ELSE LET group == to_group_subgroup(parts[1], parts[2])[1]
                sub == to_group_subgroup(parts[1], parts[2])[2]
            IN IF ~DictHas(reg.group_table, group)
               THEN KeyError("names non-existent group", Some(selector))
               ELSE IF ~DictHas(DictGet(reg.group_table, group), sub)
               THEN KeyError("names non-existent subgroup", Some(selector))
               ELSE Selected(DictGet(DictGet(reg.group_table, group), sub))

\* The body of the loop of select, for one selector.
select_one(reg, selector) ==
    IF selector = <<"ALL">> THEN Selected(AllEmoji(reg))
    ELSE IF selector = <<"NONDIVERSE">>
    THEN IF DictHas(reg.group_table, PeopleAndBody)
         THEN Selected(non_diverse_people(reg))
         ELSE KeyError("people-and-body", None)
    ELSE IF is_subgroup_selector(selector) THEN subgroup_from_selector(reg, selector)
    ELSE IF DictHas(reg.group_table, to_group(selector))
    THEN Selected(GroupEmoji(DictGet(reg.group_table, to_group(selector))))
    ELSE IF DictHas(reg.name_table, lower(selector))
    THEN Selected(<<DictGet(reg.name_table, lower(selector))>>)
    ELSE KeyError("names neither emoji nor group", Some(selector))

\* A select that passes over a selector it cannot resolve.
RECURSIVE select_resolvable(_, _)
select_resolvable(reg, sels) ==
    IF sels = <<>> THEN Selected(<<>>)
    ELSE LET first == select_one(reg, Head(sels))
             rest == select_resolvable(reg, Tail(sels))
         IN Selected((IF first.ok THEN first.emoji ELSE <<>>) \o rest.emoji)

\* The entries of list that are not in seen, each once.
RECURSIVE Distinct(_, _)
Distinct(list, seen) ==
    IF list = <<>> THEN <<>>
    ELSE IF Head(list) \in seen THEN Distinct(Tail(list), seen)
    ELSE <<Head(list)>> \o Distinct(Tail(list), seen \cup {Head(list)})

\* A select that adds an entry to the selection once only.
select_distinct(reg, sels) ==
    LET result == select_resolvable(reg, sels)
    IN IF \E p \in 1..Len(sels) : ~select_one(reg, sels[p]).ok
       THEN CHOOSE r \in {select_one(reg, sels[p]) : p \in 1..Len(sels)} : ~r.ok
       ELSE Selected(Distinct(result.emoji, {}))

\* select: the selection grows selector by selector; a KeyError ends the call.
RECURSIVE select(_, _)
select(reg, sels) ==
    IF sels = <<>> THEN Selected(<<>>)
    ELSE LET first == select_one(reg, Head(sels))
             rest == select(reg, Tail(sels))
         IN IF ~first.ok THEN first
            ELSE IF ~rest.ok THEN rest
            ELSE Selected(first.emoji \o rest.emoji)

\* The selectors of the model's callers.
Selectors ==
    { <<"ALL">>, <<"NONDIVERSE">>, <<"Component">>,
      <<"Body", "::", "Hands", " ", "&", " ", "fingers">>,
      <<"Man">>, <<"woman">> }

RECURSIVE SelectorLists(_)
SelectorLists(n) ==
    IF n = 0 THEN {<<>>}
    ELSE SelectorLists(n - 1)
           \cup {Append(l, sel) : l \in SelectorLists(n - 1), sel \in Selectors}

\* The call of registry.select that main makes once the registry is built, its
\* selectors one of lists.
SelectOf(lists) ==
    /\ pc = "done"
    /\ selectors = None
    /\ \E sels \in lists :
          LET result == select(Get(registry), sels)
          IN /\ selectors' = Some(sels)
             /\ selection' = IF result.ok THEN Some(result.emoji) ELSE None
             /\ select_error' = IF result.ok THEN None
                                ELSE Some([msg |-> result.msg, selector |-> result.selector])
    /\ UNCHANGED <<parserVars, nameVars, tableVars, patchVars>>

\* The call with at most MaxSelectors selectors.
Select == SelectOf(SelectorLists(MaxSelectors))

\* The source files of the model's callers of select: group lines, subgroup
\* lines and well-formed data lines, one of them the fully-qualified "snowman",
\* a name that holds the letters of "man" inside a word.
SelectLines ==
    {line \in Lines : \/ line.kind \in {"group", "subgroup"}
                      \/ /\ line.kind = "data"
                         /\ FloatOk(line.version)
                         /\ line.codepoints \in CodepointTexts}
    \cup {DataLine(<< <<1, 15, 6, 0, 1>> >>, FULLY_QUALIFIED, <<"snow", "man">>)}

NextSelect ==
    \/ ReadLineOf(SelectLines) /\ UNCHANGED <<nameVars, selectVars, tableVars, patchVars>>
    \/ EndOfFile /\ UNCHANGED <<nameVars, selectVars, tableVars, patchVars>>
    \/ Repoint /\ UNCHANGED <<nameVars, selectVars, tableVars, patchVars>>
    \/ Return /\ UNCHANGED <<nameVars, selectVars, tableVars, patchVars>>
    \/ Select

SpecSelect == Init /\ [][NextSelect]_vars

(***************************************************************************)
(* A caller of to_name.  The texts it normalizes are the concatenations of *)
(* at most MaxPieces pieces; it calls to_name on a text and then on the    *)
(* result, at most MaxCalls times in all.                                  *)
(***************************************************************************)
Pieces ==
    { <<"medium">>, <<"dark">>, <<"light">>, SkinTone, <<"-">>, <<" ">>, <<"_">>,
      <<"&">>, <<"Palm", " ", "up", " ", "hand">> }

RECURSIVE Texts(_)
Texts(n) ==
    IF n = 0 THEN {<<>>}
    ELSE Texts(n - 1) \cup {t \o p : t \in Texts(n - 1), p \in Pieces}

InitName ==
    /\ RunInit
    /\ value \in Texts(MaxPieces)
    /\ names = <<>>
    /\ selectors = None
    /\ selection = None
    /\ select_error = None
    /\ TableIdle
    /\ PatchIdle

Normalize ==
    /\ Len(names) < MaxCalls
    /\ names' = Append(names, to_name(IF names = <<>> THEN value ELSE names[Len(names)]))
    /\ UNCHANGED <<value, parserVars, selectVars, tableVars, patchVars>>

NextName == Normalize

SpecName == InitName /\ [][NextName]_vars

(***************************************************************************)
(* Documents in qpdf's JSON format.  The object map document['qpdf'][1] is *)
(* a dict from 'trailer' and 'obj:<ref>' to objects; an object is a dict   *)
(* that holds its dictionary under 'value' (or a stream under 'stream');   *)
(* a reference is a string such as '1 0 R', /Kids a list of references.    *)
(***************************************************************************)
MaxPatches == 2

Object(v) == <<[k |-> "value", v |-> v]>>
Stream == <<[k |-> "stream", v |-> <<>>]>>
Typed(type, rest) == Object(<<[k |-> "/Type", v |-> type]>> \o rest)
Entry(key, o) == <<[k |-> key, v |-> o]>>

\* A del that leaves the dict as it is.
DictKeep(d, key) == d

\* del d[key]
DictDel(d, key) == SelectSeq(d, LAMBDA e : e.k # key)

\* The objects a document of the model may hold under each of its keys: none,
\* one without a value, one of the wrong type, one that lacks a key, or the
\* object a one-page document has there.
TrailerObjects ==
    { <<>>, Entry("trailer", Stream), Entry("trailer", Object(<<>>)),
      Entry("trailer", Object(<<[k |-> "/Root", v |-> "1 0 R"]>>)),
      Entry("trailer", Object(<<[k |-> "/Root", v |-> "9 0 R"]>>)) }
CatalogObjects ==
    { <<>>, Entry("obj:1 0 R", Stream),
      Entry("obj:1 0 R", Object(<<[k |-> "/Pages", v |-> "2 0 R"]>>)),
      Entry("obj:1 0 R", Typed("/Catalog", <<>>)),
      Entry("obj:1 0 R", Typed("/Pages", <<[k |-> "/Pages", v |-> "2 0 R"]>>)),
      Entry("obj:1 0 R", Typed("/Catalog", <<[k |-> "/Pages", v |-> "2 0 R"]>>)) }
PagesObjects ==
    { <<>>,
      Entry("obj:2 0 R", Typed("/Page", <<[k |-> "/Kids", v |-> <<"3 0 R">>]>>)),
      Entry("obj:2 0 R", Typed("/Pages", <<[k |-> "/Count", v |-> "1"]>>)),
      Entry("obj:2 0 R", Typed("/Pages", <<[k |-> "/Kids", v |-> <<>>]>>)),
      Entry("obj:2 0 R", Typed("/Pages", <<[k |-> "/Kids", v |-> <<"3 0 R">>]>>)),
      Entry("obj:2 0 R", Typed("/Pages", <<[k |-> "/Kids", v |-> <<"4 0 R">>]>>)),
      Entry("obj:2 0 R", Typed("/Pages", <<[k |-> "/Kids", v |-> <<"3 0 R", "4 0 R">>]>>)) }
PageObjects ==
    { <<>>, Entry("obj:3 0 R", Stream),
      Entry("obj:3 0 R", Typed("/XObject", <<[k |-> "/Group", v |-> "6 0 R"]>>)),
      Entry("obj:3 0 R", Typed("/Page", <<[k |-> "/Contents", v |-> "5 0 R"]>>)),
      Entry("obj:3 0 R", Typed("/Page", <<[k |-> "/Group", v |-> "6 0 R"],
                                          [k |-> "/Contents", v |-> "5 0 R"]>>)) }
\* Another object that has a /Group.
OtherObject ==
    Entry("obj:4 0 R", Typed("/Page", <<[k |-> "/Group", v |-> "6 0 R"],
                                        [k |-> "/Contents", v |-> "7 0 R"]>>))

Documents ==
    {t \o c \o p \o g \o OtherObject :
        t \in TrailerObjects, c \in CatalogObjects, p \in PagesObjects, g \in PageObjects}

(***************************************************************************)
(* remove_page_group_object                                                *)
(***************************************************************************)
\* f'obj:{ref}', on the references of the model
Key(ref) ==
    CASE ref = "trailer" -> "trailer"
      [] ref = "1 0 R" -> "obj:1 0 R"
      [] ref = "2 0 R" -> "obj:2 0 R"
      [] ref = "3 0 R" -> "obj:3 0 R"
      [] ref = "4 0 R" -> "obj:4 0 R"
      [] ref = "9 0 R" -> "obj:9 0 R"

Resolved(v) == [ok |-> TRUE, v |-> v, error |-> <<>>]
Unresolved(type, msg) == [ok |-> FALSE, v |-> <<>>, error |-> [type |-> type, msg |-> msg]]

\* resolve
resolve(objects, ref) ==
    IF ~DictHas(objects, Key(ref)) THEN Unresolved("KeyError", ref)
    ELSE Resolved(DictGet(objects, Key(ref)))

\* A resolve_value that does not look at the type.
resolve_untyped(objects, ref, type) ==
    LET o == resolve(objects, ref)
    IN IF ~o.ok THEN o
       ELSE IF ~DictHas(o.v, "value")
       THEN Unresolved("ValueError", "does not reference object")
       ELSE Resolved(DictGet(o.v, "value"))

\* resolve_value; type is None or the /Type the value must have.  The message
\* of the type error reads v["/Type"], a KeyError if the value has no /Type.
resolve_value(objects, ref, type) ==
    LET o == resolve(objects, ref)
    IN IF ~o.ok THEN o
       ELSE IF ~DictHas(o.v, "value")
       THEN Unresolved("ValueError", "does not reference object")
       ELSE LET v == DictGet(o.v, "value")
            IN IF type # None /\ ~DictHas(v, "/Type")
               THEN Unresolved("KeyError", "/Type")
               ELSE IF type # None /\ DictGet(v, "/Type") # Get(type)
               THEN Unresolved("ValueError", "references object of type")
               ELSE Resolved(v)

\* An exception leaves remove_page_group_object.
RaisePatch(e) ==
    /\ at' = "raised"
    /\ patch_error' = Some(e)
    /\ reports' = Append(reports, "raised")
    /\ UNCHANGED <<document, original, locals, changed, driverVars>>

\* remove_page_group_object is entered with the document doc.
Enter(doc) ==
    /\ at' = "trailer"
    /\ document' = doc
    /\ original' = doc
    /\ trailer' = None
    /\ root' = None
    /\ pages' = None
    /\ page' = None
    /\ changed' = None
    /\ patch_error' = None
    /\ UNCHANGED reports

\* remove_page_group loads the document, as the last call left it, and calls
\* remove_page_group_object: at most MaxPatches times.
CallPatch ==
    /\ driver = "none"
    /\ at \in {"idle", "returned"}
    /\ Len(reports) < MaxPatches
    /\ Enter(document)
    /\ UNCHANGED driverVars

\* trailer = resolve_value('trailer')
ResolveTrailer ==
    /\ at = "trailer"
    /\ LET r == resolve_value(document, "trailer", None)
       IN IF ~r.ok THEN RaisePatch(r.error)
          ELSE /\ trailer' = Some(r.v)
               /\ at' = "root"
               /\ UNCHANGED <<document, original, root, pages, page, changed,
                              patch_error, reports, driverVars>>

\* root = resolve_value(trailer['/Root'], '/Catalog')
ResolveRoot ==
    /\ at = "root"
    /\ IF ~DictHas(Get(trailer), "/Root")
       THEN RaisePatch([type |-> "KeyError", msg |-> "/Root"])
       ELSE LET r == resolve_value(document, DictGet(Get(trailer), "/Root"),
                                   Some("/Catalog"))
            IN IF ~r.ok THEN RaisePatch(r.error)
               ELSE /\ root' = Some(r.v)
                    /\ at' = "pages"
                    /\ UNCHANGED <<document, original, trailer, pages, page, changed,
                                   patch_error, reports, driverVars>>

\* len(pages) > 1
SeveralPages(kids) == Len(kids) > 1

\* pages = resolve_value(root['/Pages'], '/Pages')['/Kids'], and the test of
\* len(pages) that follows it
ResolvePages ==
    /\ at = "pages"
    /\ IF ~DictHas(Get(root), "/Pages")
       THEN RaisePatch([type |-> "KeyError", msg |-> "/Pages"])
       ELSE LET r == resolve_value(document, DictGet(Get(root), "/Pages"),
                                   Some("/Pages"))
            IN IF ~r.ok THEN RaisePatch(r.error)
               ELSE IF ~DictHas(r.v, "/Kids")
               THEN RaisePatch([type |-> "KeyError", msg |-> "/Kids"])
               ELSE IF SeveralPages(DictGet(r.v, "/Kids"))
               THEN RaisePatch([type |-> "ValueError",
                                msg |-> "pages instead of just one"])
               ELSE /\ pages' = Some(DictGet(r.v, "/Kids"))
                    /\ at' = "page"
                    /\ UNCHANGED <<document, original, trailer, root, page, changed,
                                   patch_error, reports, driverVars>>

\* page = resolve_value(pages[0], '/Page')
ResolvePage ==
    /\ at = "page"
    /\ IF Get(pages) = <<>>
       THEN RaisePatch([type |-> "IndexError", msg |-> "list index out of range"])
       ELSE LET r == resolve_value(document, Get(pages)[1], Some("/Page"))
            IN IF ~r.ok THEN RaisePatch(r.error)
               ELSE /\ page' = Some(Key(Get(pages)[1]))
                    /\ at' = "group"
                    /\ UNCHANGED <<document, original, trailer, root, pages, changed,
                                   patch_error, reports, driverVars>>

\* The dictionary of the object under key.
ValueOf(objects, key) == DictGet(DictGet(objects, key), "value")

\* A deletion of /Group from every object that has a value.
WithoutAnyGroup(objects, key) ==
    [i \in 1..Len(objects) |->
        IF DictHas(objects[i].v, "value")
        THEN [k |-> objects[i].k,
              v |-> DictSet(objects[i].v, "value",
                            DictDel(DictGet(objects[i].v, "value"), "/Group"))]
        ELSE objects[i]]

\* del page['/Group'], page being the dictionary of the object under key
WithoutGroup(objects, key) ==
    DictSet(objects, key,
            DictSet(DictGet(objects, key), "value",
                    DictDel(ValueOf(objects, key), "/Group")))

\* A test that finds a /Group in every object that has a value.
HasValue(objects, key) == DictHas(DictGet(objects, key), "value")

\* '/Group' in page
HasGroup(objects, key) == DictHas(ValueOf(objects, key), "/Group")

\* if not '/Group' in page: return None; del page['/Group']; return document
RemoveGroup ==
    /\ at = "group"
    /\ at' = "returned"
    /\ IF ~HasGroup(document, Get(page))
       THEN /\ changed' = Some(FALSE)
            /\ reports' = Append(reports, "unchanged")
            /\ UNCHANGED document
       ELSE /\ changed' = Some(TRUE)
            /\ reports' = Append(reports, "changed")
            /\ document' = WithoutGroup(document, Get(page))
    /\ UNCHANGED <<original, locals, patch_error, driverVars>>

InitPatch ==
    /\ RunInit
    /\ value = <<>>
    /\ names = <<>>
    /\ selectors = None
    /\ selection = None
    /\ select_error = None
    /\ TableIdle
    /\ document \in Documents
    /\ original = document
    /\ at = "idle"
    /\ trailer = None
    /\ root = None
    /\ pages = None
    /\ page = None
    /\ changed = None
    /\ patch_error = None
    /\ reports = <<>>
    /\ driver = "none"
    /\ files = <<>>
    /\ next_file = 0
    /\ driver_at = "loop"

NextPatch ==
    \/ CallPatch /\ UNCHANGED <<parserVars, nameVars, selectVars, tableVars>>
    \/ ResolveTrailer /\ UNCHANGED <<parserVars, nameVars, selectVars, tableVars>>
    \/ ResolveRoot /\ UNCHANGED <<parserVars, nameVars, selectVars, tableVars>>
    \/ ResolvePages /\ UNCHANGED <<parserVars, nameVars, selectVars, tableVars>>
    \/ ResolvePage /\ UNCHANGED <<parserVars, nameVars, selectVars, tableVars>>
    \/ RemoveGroup /\ UNCHANGED <<parserVars, nameVars, selectVars, tableVars>>

SpecPatch == InitPatch /\ [][NextPatch]_vars

(***************************************************************************)
(* The drivers: main of scripts/fix-page-groups.py, which has each of its  *)
(* PDF arguments rewritten inside a try statement of its own, and main of  *)
(* config/emo.py, whose loop over the requested emoji is inside the one    *)
(* try statement of main.  Each has the document of a file patched by the  *)
(* same steps (degroup and remove_page_group_object are the same code).    *)
(***************************************************************************)
MaxFiles == 2

\* The documents of the drivers' files: one page with a /Group, one page
\* without, two pages, no page.
DriverDocument(p, g) ==
    Entry("trailer", Object(<<[k |-> "/Root", v |-> "1 0 R"]>>))
      \o Entry("obj:1 0 R", Typed("/Catalog", <<[k |-> "/Pages", v |-> "2 0 R"]>>))
      \o Entry("obj:2 0 R", Typed("/Pages", <<[k |-> "/Kids", v |-> p]>>))
      \o Entry("obj:3 0 R", Typed("/Page", g \o <<[k |-> "/Contents", v |-> "5 0 R"]>>))
      \o OtherObject
DriverDocuments ==
    { DriverDocument(<<"3 0 R">>, <<[k |-> "/Group", v |-> "6 0 R"]>>),
      DriverDocument(<<"3 0 R">>, <<>>),
      DriverDocument(<<"3 0 R", "4 0 R">>, <<[k |-> "/Group", v |-> "6 0 R"]>>),
      DriverDocument(<<>>, <<[k |-> "/Group", v |-> "6 0 R"]>>) }

RECURSIVE FileLists(_)
FileLists(n) ==
    IF n = 0 THEN {<<>>}
    ELSE FileLists(n - 1)
           \cup {Append(l, d) : l \in FileLists(n - 1), d \in DriverDocuments}

\* fix-page-groups.py, main: the next argument is rewritten; the except clause
\* of the loop body has printed the error of the one before, if it raised.
FixPageGroupsNext ==
    /\ driver = "fix-page-groups"
    /\ driver_at = "loop"
    /\ at \in {"idle", "returned", "raised"}
    /\ next_file < Len(files)
    /\ Enter(files[next_file + 1])
    /\ next_file' = next_file + 1
    /\ UNCHANGED <<driver, files, driver_at>>

\* fix-page-groups.py, main: the loop is over.
FixPageGroupsExit ==
    /\ driver = "fix-page-groups"
    /\ driver_at = "loop"
    /\ at \in {"idle", "returned", "raised"}
    /\ next_file = Len(files)
    /\ driver_at' = "exit"
    /\ UNCHANGED <<document, original, at, locals, changed, patch_error, reports,
                   driver, files, next_file>>

\* config/emo.py, main: convert(emoji) for the next requested emoji, which has
\* fix_pdf patch the document of its PDF file.
EmoNext ==
    /\ driver = "emo"
    /\ driver_at = "loop"
    /\ at \in {"idle", "returned"}
    /\ next_file < Len(files)
    /\ Enter(files[next_file + 1])
    /\ next_file' = next_file + 1
    /\ UNCHANGED <<driver, files, driver_at>>

\* config/emo.py, main: the loop is over, or an exception has left it and the
\* except clause of main has logged it.
EmoExit ==
    /\ driver = "emo"
    /\ driver_at = "loop"
    /\ \/ at = "raised"
       \/ at \in {"idle", "returned"} /\ next_file = Len(files)
    /\ driver_at' = "exit"
    /\ UNCHANGED <<document, original, at, locals, changed, patch_error, reports,
                   driver, files, next_file>>

InitDriver ==
    /\ RunInit
    /\ value = <<>>
    /\ names = <<>>
    /\ selectors = None
    /\ selection = None
    /\ select_error = None
    /\ TableIdle
    /\ document = <<>>
    /\ original = <<>>
    /\ at = "idle"
    /\ trailer = None
    /\ root = None
    /\ pages = None
    /\ page = None
    /\ changed = None
    /\ patch_error = None
    /\ reports = <<>>
    /\ driver \in {"fix-page-groups", "emo"}
    /\ files \in FileLists(MaxFiles)
    /\ next_file = 0
    /\ driver_at = "loop"

NextDriver ==
    \/ FixPageGroupsNext /\ UNCHANGED <<parserVars, nameVars, selectVars, tableVars>>
    \/ FixPageGroupsExit /\ UNCHANGED <<parserVars, nameVars, selectVars, tableVars>>
    \/ EmoNext /\ UNCHANGED <<parserVars, nameVars, selectVars, tableVars>>
    \/ EmoExit /\ UNCHANGED <<parserVars, nameVars, selectVars, tableVars>>
    \/ driver_at = "loop" /\ ResolveTrailer /\ UNCHANGED <<parserVars, nameVars, selectVars, tableVars>>
    \/ driver_at = "loop" /\ ResolveRoot /\ UNCHANGED <<parserVars, nameVars, selectVars, tableVars>>
    \/ driver_at = "loop" /\ ResolvePages /\ UNCHANGED <<parserVars, nameVars, selectVars, tableVars>>
    \/ driver_at = "loop" /\ ResolvePage /\ UNCHANGED <<parserVars, nameVars, selectVars, tableVars>>
    \/ driver_at = "loop" /\ RemoveGroup /\ UNCHANGED <<parserVars, nameVars, selectVars, tableVars>>

SpecDriver == InitDriver /\ [][NextDriver]_vars

(***************************************************************************)
(* The source as the claims speak of it.                                   *)
(***************************************************************************)
NoPeerMsg == "no fully qualified emoji"
NoSubgroupMsg == "emoji without prior group and subgroup declaration"
DuplicateMsgs ==
    { "duplicate emoji by codepoints",
      "duplicate declaration of component emoji by name",
      "duplicate declaration of fully qualified emoji by name" }

\* run() raised while it handled the last line read
ReadFailed == pc = "error" /\ Get(error).msg # NoPeerMsg
\* run() returned
Succeeded == pc = "done"

\* The lines that declare an emoji: the data lines that parse_line turns into one.
Declarations ==
    {i \in 1..Len(source) : source[i].kind = "data" /\ FloatOk(source[i].version)}
\* The declarations that add_emoji registered.
Registered == {i \in Declarations : ~(ReadFailed /\ i = Len(source))}
CodepointsAt(i) == to_codepoints(source[i].codepoints)
NameAt(i) == to_name(source[i].name)
StatusAt(i) == source[i].status
EmojiAt(i) == parse_line(source[i]).emoji
NotQualified(i) == StatusAt(i) \in {MINIMALLY_QUALIFIED, UNQUALIFIED}
Listed(i) == StatusAt(i) \in {COMPONENT, FULLY_QUALIFIED}

\* The group that is current when line i is read: that of the last group line before it.
GroupLinesBefore(i) == {j \in 1..(i - 1) : source[j].kind = "group"}
GroupAt(i) ==
    IF GroupLinesBefore(i) = {} THEN None
    ELSE Some(to_group(source[CHOOSE j \in GroupLinesBefore(i) :
                                  \A h \in GroupLinesBefore(i) : h <= j].name))

\* The declaration that fails in a failed run: the last line read, or the entry
\* the final loop stopped at.
OffendingLine ==
    IF ReadFailed THEN Len(source)
    ELSE CHOOSE i \in Declarations : CodepointsAt(i) = codepoint_table[cursor].k

(***************************************************************************)
(* C1: after run() has returned, for every declared codepoint sequence     *)
(* whose status is minimally-qualified or unqualified, the entry of the    *)
(* codepoint table under that sequence is the entry of the name table      *)
(* under the declaration's normalized name.                                *)
(***************************************************************************)
C1_RepointedToNameTable ==
    Succeeded =>
        \A i \in Declarations : NotQualified(i) =>
            /\ DictHas(Get(registry).codepoint_table, CodepointsAt(i))
            /\ DictHas(Get(registry).name_table, NameAt(i))
            /\ DictGet(Get(registry).codepoint_table, CodepointsAt(i))
                 = DictGet(Get(registry).name_table, NameAt(i))

C1_Witness ==
    /\ Succeeded
    /\ \E i \in Declarations :
          /\ NotQualified(i)
          /\ DictGet(Get(registry).codepoint_table, CodepointsAt(i)) # EmojiAt(i)

(***************************************************************************)
(* C2, as stated: a data line whose codepoint sequence is already in the   *)
(* codepoint table is rejected with the duplicate error, and no two        *)
(* registered declarations have the same codepoint sequence.               *)
(***************************************************************************)
C2_Original ==
    /\ \A i, j \in Registered : i # j => CodepointsAt(i) # CodepointsAt(j)
    /\ \A i \in Declarations :
          (\E j \in Registered : j < i /\ CodepointsAt(j) = CodepointsAt(i)) =>
              /\ ReadFailed
              /\ i = Len(source)
              /\ Get(error).msg \in DuplicateMsgs

(***************************************************************************)
(* C2, amended: a data line that declares an emoji whose codepoint         *)
(* sequence is already in the codepoint table is rejected with a fatal     *)
(* error, which is the duplicate-by-codepoints error when a subgroup is    *)
(* active and the missing-subgroup error when none is; no two registered   *)
(* declarations have the same codepoint sequence, and the codepoint table  *)
(* has exactly one slot per registered declaration.                        *)
(***************************************************************************)
C2_DuplicateCodepointsRejected ==
    /\ \A i, j \in Registered : i # j => CodepointsAt(i) # CodepointsAt(j)
    /\ Len(codepoint_table) = Cardinality(Registered)
    /\ \A i \in Registered : DictHas(codepoint_table, CodepointsAt(i))
    /\ \A i \in Declarations :
          (\E j \in Registered : j < i /\ CodepointsAt(j) = CodepointsAt(i)) =>
              /\ ReadFailed
              /\ i = Len(source)
              /\ Get(error).msg =
                    IF subgroup_name = None THEN NoSubgroupMsg
                    ELSE "duplicate emoji by codepoints"

C2_Witness ==
    /\ ReadFailed
    /\ Get(error).msg = "duplicate emoji by codepoints"
    /\ \E j \in Registered :
          /\ CodepointsAt(j) = CodepointsAt(Len(source))
          /\ source[j].codepoints # source[Len(source)].codepoints

(***************************************************************************)
(* C3, as stated: a component or fully-qualified data line whose           *)
(* normalized name is already used by a registered component or            *)
(* fully-qualified entry is rejected with a duplicate error, and no two    *)
(* registered component or fully-qualified declarations share a name.      *)
(***************************************************************************)
C3_Original ==
    /\ \A i, j \in Registered :
          i # j /\ Listed(i) /\ Listed(j) => NameAt(i) # NameAt(j)
    /\ \A i \in Declarations :
          (/\ Listed(i)
           /\ \E j \in Registered : j < i /\ Listed(j) /\ NameAt(j) = NameAt(i)) =>
              /\ ReadFailed
              /\ i = Len(source)
              /\ Get(error).msg \in DuplicateMsgs

(***************************************************************************)
(* C3, amended: a component or fully-qualified data line whose normalized  *)
(* name is already used by a registered component or fully-qualified entry *)
(* is rejected with a fatal error: the missing-subgroup error when no      *)
(* subgroup is active, else the duplicate-by-codepoints error when its     *)
(* codepoint sequence is registered too, else the duplicate-by-name error  *)
(* of its status; no two registered component or fully-qualified           *)
(* declarations share a name, and the name table has exactly one key per   *)
(* such declaration.                                                       *)
(***************************************************************************)
C3_DuplicateNameRejected ==
    /\ \A i, j \in Registered :
          i # j /\ Listed(i) /\ Listed(j) => NameAt(i) # NameAt(j)
    /\ Len(name_table) = Cardinality({i \in Registered : Listed(i)})
    /\ \A i \in Registered : Listed(i) => DictHas(name_table, NameAt(i))
    /\ \A i \in Declarations :
          (/\ Listed(i)
           /\ \E j \in Registered : j < i /\ Listed(j) /\ NameAt(j) = NameAt(i)) =>
              /\ ReadFailed
              /\ i = Len(source)
              /\ Get(error).msg =
                    IF subgroup_name = None THEN NoSubgroupMsg
                    ELSE IF DictHas(codepoint_table, CodepointsAt(i))
                    THEN "duplicate emoji by codepoints"
                    ELSE IF StatusAt(i) = COMPONENT
                    THEN "duplicate declaration of component emoji by name"
                    ELSE "duplicate declaration of fully qualified emoji by name"

C3_Witness ==
    /\ ReadFailed
    /\ Get(error).msg = "duplicate declaration of fully qualified emoji by name"
    /\ \E j \in Registered :
          /\ StatusAt(j) = COMPONENT
          /\ NameAt(j) = NameAt(Len(source))
          /\ source[j].name # source[Len(source)].name

(***************************************************************************)
(* C4: a component data line read while the current group is not           *)
(* "component", and a data line of another status read while it is, are    *)
(* rejected with a fatal error; after a successful parse the group         *)
(* "component" holds only component entries and every other group holds    *)
(* only fully-qualified entries.                                           *)
(***************************************************************************)
C4_ComponentGroup ==
    /\ \A i \in Declarations :
          (StatusAt(i) = COMPONENT) # (GroupAt(i) = Some(<<"component">>)) =>
              ReadFailed /\ i = Len(source)
    /\ Succeeded =>
          \A g \in 1..Len(Get(registry).group_table) :
             LET group == Get(registry).group_table[g]
             IN \A sg \in 1..Len(group.v) : \A e \in 1..Len(group.v[sg].v) :
                   group.v[sg].v[e].status =
                      IF group.k = <<"component">> THEN COMPONENT ELSE FULLY_QUALIFIED

C4_Witness ==
    /\ Succeeded
    /\ \E g, h \in 1..Len(Get(registry).group_table) :
          LET group == Get(registry).group_table[g]
              other == Get(registry).group_table[h]
          IN /\ group.k = <<"component">>
             /\ other.k # <<"component">>
             /\ \E sg \in 1..Len(group.v) : group.v[sg].v # <<>>
             /\ \E sg \in 1..Len(other.v) : other.v[sg].v # <<>>

(***************************************************************************)
(* C5, as stated: whenever a parse completes successfully, every declared  *)
(* entry whose status is minimally-qualified or unqualified has a declared *)
(* fully-qualified entry of the same name, and its slot of the codepoint   *)
(* table holds that entry.                                                 *)
(***************************************************************************)
C5_Original ==
    Succeeded =>
        \A i \in Declarations : NotQualified(i) =>
            \E j \in Declarations :
                /\ StatusAt(j) = FULLY_QUALIFIED
                /\ NameAt(j) = NameAt(i)
                /\ DictGet(Get(registry).codepoint_table, CodepointsAt(i)) = EmojiAt(j)

(***************************************************************************)
(* C6, as stated: every fatal error raised while the registry is built     *)
(* carries the line number of the source line that caused it.              *)
(***************************************************************************)
C6_Original == pc = "error" => Get(error).lineno = Some(OffendingLine)

(***************************************************************************)
(* C7: once run() has raised, no later line is processed and nothing else  *)
(* happens, and Registry.from_file returns no Registry: a Registry exists  *)
(* only after run() has returned, and holds the tables of the whole        *)
(* source.                                                                 *)
(***************************************************************************)
C7_NoPartialRegistry ==
    /\ [](pc = "error" => registry = None /\ error # None)
    /\ [](registry # None =>
             /\ Succeeded
             /\ lineno = Len(source)
             /\ Get(registry) = [name_table |-> name_table,
                                 codepoint_table |-> codepoint_table,
                                 group_table |-> group_table])
    /\ [][pc = "error" => UNCHANGED vars]_vars

C7_Witness ==
    /\ pc = "error"
    /\ registry = None
    /\ codepoint_table # <<>>
    /\ group_table # <<>>

(***************************************************************************)
(* C9, as stated: to_name is idempotent: to_name(to_name(x)) = to_name(x)  *)
(* for every text x.                                                       *)
(***************************************************************************)
C9_Original == \A i \in 2..Len(names) : names[i] = names[1]

(***************************************************************************)
(* C10: for a successfully built registry, select("ALL") returns the       *)
(* entries of every subgroup of every group in the order of the group      *)
(* table, and as many entries as the source has component and              *)
(* fully-qualified data lines: each of them once, and no other.            *)
(***************************************************************************)
\* The places of the group table: group, subgroup and position in the subgroup.
Places(reg) ==
    {t \in (1..Len(reg.group_table)) \X (1..MaxLines) \X (1..MaxLines) :
        /\ t[2] <= Len(reg.group_table[t[1]].v)
        /\ t[3] <= Len(reg.group_table[t[1]].v[t[2]].v)}
EntryAt(reg, t) == reg.group_table[t[1]].v[t[2]].v[t[3]]
PlacesOf(reg, emoji) == {t \in Places(reg) : EntryAt(reg, t) = emoji}
Before(t, u) ==
    \/ t[1] < u[1]
    \/ t[1] = u[1] /\ t[2] < u[2]
    \/ t[1] = u[1] /\ t[2] = u[2] /\ t[3] < u[3]

C10_SelectAll ==
    selectors = Some(<< <<"ALL">> >>) =>
        /\ selection # None
        /\ LET list == Get(selection)
               reg == Get(registry)
               listed == {i \in Declarations : Listed(i)}
           IN /\ Len(list) = Cardinality(listed)
              /\ Len(list) = Cardinality(Places(reg))
              /\ \A i \in listed :
                    Cardinality({p \in 1..Len(list) : list[p] = EmojiAt(i)}) = 1
              /\ \A p \in 1..Len(list) : \E i \in listed : list[p] = EmojiAt(i)
              /\ \A p, q \in 1..Len(list) : p < q =>
                    \E t \in PlacesOf(reg, list[p]) : \E u \in PlacesOf(reg, list[q]) :
                        Before(t, u)

C10_Witness ==
    /\ selectors = Some(<< <<"ALL">> >>)
    /\ selection # None
    /\ \E i, j \in Declarations :
          /\ i < j
          /\ Get(selection) = <<EmojiAt(j), EmojiAt(i)>>

(***************************************************************************)
(* The groups and subgroups of the source as the claims speak of them.     *)
(***************************************************************************)
\* The subgroup that is current when line i is read: that of the last subgroup
\* line before it that no group line follows.
SubgroupLinesBefore(i) ==
    {j \in 1..(i - 1) : /\ source[j].kind = "subgroup"
                        /\ \A h \in GroupLinesBefore(i) : h < j}
SubgroupAt(i) ==
    IF SubgroupLinesBefore(i) = {} THEN None
    ELSE Some(to_subgroup(source[CHOOSE j \in SubgroupLinesBefore(i) :
                                     \A h \in SubgroupLinesBefore(i) : h <= j].name))

\* The groups the source declares, and the subgroups it declares in group g.
DeclaredGroups ==
    {to_group(source[j].name) : j \in {h \in 1..Len(source) : source[h].kind = "group"}}
DeclaredSubgroups(g) ==
    {to_subgroup(source[j].name) :
        j \in {h \in 1..Len(source) : source[h].kind = "subgroup" /\ GroupAt(h) = Some(g)}}

\* The emoji of the declarations in S, in the order of the source.
RECURSIVE InOrder(_, _)
InOrder(S, i) ==
    IF i > Len(source) THEN <<>>
    ELSE (IF i \in S THEN <<EmojiAt(i)>> ELSE <<>>) \o InOrder(S, i + 1)

\* The component and fully-qualified declarations of subgroup s of group g.
ListedIn(g, s) ==
    {i \in Declarations : Listed(i) /\ GroupAt(i) = Some(g) /\ SubgroupAt(i) = Some(s)}
\* The component and fully-qualified declarations of group g.
ListedInGroup(g) == {i \in Declarations : Listed(i) /\ GroupAt(i) = Some(g)}

\* The one selector of a call with one selector.
OneSelector == selectors # None /\ Len(Get(selectors)) = 1
TheSelector == Get(selectors)[1]
SelectorErrors ==
    { "does not combine two names", "names non-existent group",
      "names non-existent subgroup", "names neither emoji nor group" }

(***************************************************************************)
(* C11: a selector group::subgroup is resolved after lowercasing both      *)
(* parts, expanding a short group alias and replacing ampersands by -and-: *)
(* the call returns exactly the component and fully-qualified declarations *)
(* of that subgroup of that group in the order of the source, and fails    *)
(* with a selector error if the source declares no such group or no such   *)
(* subgroup in that group.                                                 *)
(***************************************************************************)
C11_SubgroupSelector ==
    (OneSelector /\ \E p \in 1..Len(TheSelector) : TheSelector[p] = "::") =>
        LET p == CHOOSE p \in 1..Len(TheSelector) : TheSelector[p] = "::"
            g == to_group(SubSeq(TheSelector, 1, p - 1))
            s == to_subgroup(SubSeq(TheSelector, p + 1, Len(TheSelector)))
        IN /\ TheSelector = <<"Body", "::", "Hands", " ", "&", " ", "fingers">> =>
                /\ g = <<"people", "-", "and", "-", "body">>
                /\ s = <<"hands", "-", "and", "-", "fingers">>
           /\ IF g \in DeclaredGroups /\ s \in DeclaredSubgroups(g)
              THEN /\ selection = Some(InOrder(ListedIn(g, s), 1))
                   /\ select_error = None
              ELSE /\ selection = None
                   /\ select_error # None
                   /\ Get(select_error).selector = Some(TheSelector)
                   /\ Get(select_error).msg =
                         IF g \in DeclaredGroups THEN "names non-existent subgroup"
                         ELSE "names non-existent group"

\* The selector Body::Hands & fingers returned two entries of the subgroup the
\* source declares as "Hands & fingers" in "People & Body", entered twice.
C11_Witness ==
    /\ OneSelector
    /\ TheSelector = <<"Body", "::", "Hands", " ", "&", " ", "fingers">>
    /\ selection # None
    /\ Len(Get(selection)) = 2
    /\ Cardinality({j \in 1..Len(source) :
                       source[j] = SubgroupLine(<<"Hands", " ", "&", " ", "fingers">>)}) = 2

(***************************************************************************)
(* C12: when the source declares the group people-and-body,                *)
(* select("NONDIVERSE") returns exactly the fully-qualified declarations   *)
(* of that group whose normalized name holds no gender, hair or skin tone  *)
(* modifier delimited by non-letters, each once, ordered by subgroup (in   *)
(* the order the group first declares them) and then by declaration; it    *)
(* returns no entry of another group.                                      *)
(***************************************************************************)
\* The names of the model's sources that hold no delimited modifier: "man" does,
\* "palm-up" and "snowman" do not.
NonDiverseNames == { <<"palm", "-", "up">>, <<"snow", "man">> }

\* The line that first declares the subgroup of declaration i in its group.
FirstSubgroupLine(i) ==
    CHOOSE j \in 1..Len(source) :
        /\ source[j].kind = "subgroup"
        /\ GroupAt(j) = GroupAt(i)
        /\ Some(to_subgroup(source[j].name)) = SubgroupAt(i)
        /\ \A h \in 1..(j - 1) :
              ~(/\ source[h].kind = "subgroup"
                /\ GroupAt(h) = GroupAt(i)
                /\ Some(to_subgroup(source[h].name)) = SubgroupAt(i))

\* Declaration i comes before declaration j in the order of the group table.
Precedes(i, j) ==
    \/ FirstSubgroupLine(i) < FirstSubgroupLine(j)
    \/ FirstSubgroupLine(i) = FirstSubgroupLine(j) /\ i < j

NonDiversePeople ==
    {i \in ListedInGroup(PeopleAndBody) : NameAt(i) \in NonDiverseNames}

RegisteredNames == {NameAt(i) : i \in {j \in Declarations : Listed(j)}}

\* The selector is of none of the forms select knows.
Unresolvable(sel) ==
    /\ sel \notin {<<"ALL">>, <<"NONDIVERSE">>}
    /\ \A p \in 1..Len(sel) : sel[p] # "::"
    /\ to_group(sel) \notin DeclaredGroups
    /\ lower(sel) \notin RegisteredNames

\* The selector is of one of the forms and names what the source declares.
Resolvable(sel) ==
    \/ sel = <<"ALL">>
    \/ sel = <<"NONDIVERSE">> /\ PeopleAndBody \in DeclaredGroups
    \/ \E p \in 1..Len(sel) :
          /\ sel[p] = "::"
          /\ to_group(SubSeq(sel, 1, p - 1)) \in DeclaredGroups
          /\ to_subgroup(SubSeq(sel, p + 1, Len(sel)))
                \in DeclaredSubgroups(to_group(SubSeq(sel, 1, p - 1)))
    \/ /\ sel # <<"NONDIVERSE">>
       /\ \A p \in 1..Len(sel) : sel[p] # "::"
       /\ to_group(sel) \in DeclaredGroups \/ lower(sel) \in RegisteredNames

C13_UnresolvableSelector ==
    /\ [](selectors # None =>
            \A p \in 1..Len(Get(selectors)) :
               (/\ Unresolvable(Get(selectors)[p])
                /\ \A q \in 1..(p - 1) : Resolvable(Get(selectors)[q])) =>
                   /\ selection = None
                   /\ select_error =
                         Some([msg |-> "names neither emoji nor group",
                               selector |-> Some(Get(selectors)[p])]))
    /\ [][selectors' # selectors =>
             /\ registry' = registry
             /\ UNCHANGED tables
             /\ Get(registry) = [name_table |-> name_table,
                                 codepoint_table |-> codepoint_table,
                                 group_table |-> group_table]]_vars

\* The call select('Man', 'woman') failed on its second selector, after
\* 'Man' had resolved to a registered emoji.
C13_Witness ==
    /\ selectors = Some(<< <<"Man">>, <<"woman">> >>)
    /\ <<"man">> \in RegisteredNames
    /\ selection = None
    /\ select_error # None
    /\ Get(select_error).selector = Some(<<"woman">>)

(***************************************************************************)
(* The expansion of a selector as the claims speak of it: the declarations *)
(* it matches, in the order of the source and in the order of the group    *)
(* table.                                                                  *)
(***************************************************************************)
ExpansionSet(sel) ==
    IF sel = <<"ALL">> THEN {i \in Declarations : Listed(i)}
    ELSE IF sel = <<"NONDIVERSE">> THEN NonDiversePeople
    ELSE IF \E p \in 1..Len(sel) : sel[p] = "::"
    THEN LET p == CHOOSE p \in 1..Len(sel) : sel[p] = "::"
         IN ListedIn(to_group(SubSeq(sel, 1, p - 1)),
                     to_subgroup(SubSeq(sel, p + 1, Len(sel))))
    ELSE IF to_group(sel) \in DeclaredGroups THEN ListedInGroup(to_group(sel))
    ELSE {i \in Declarations : Listed(i) /\ NameAt(i) = lower(sel)}

\* The line that first declares the group of declaration i.
FirstGroupLine(i) ==
    CHOOSE j \in 1..Len(source) :
        /\ source[j].kind = "group"
        /\ Some(to_group(source[j].name)) = GroupAt(i)
        /\ \A h \in 1..(j - 1) :
              ~(source[h].kind = "group" /\ Some(to_group(source[h].name)) = GroupAt(i))

\* Declaration i comes before declaration j in the group table: by the first
\* declaration of the group, then of the subgroup, then by line.
PrecedesInTable(i, j) ==
    \/ FirstGroupLine(i) < FirstGroupLine(j)
    \/ FirstGroupLine(i) = FirstGroupLine(j) /\ Precedes(i, j)

RECURSIVE InTableOrder(_)
InTableOrder(S) ==
    IF S = {} THEN <<>>
    ELSE LET m == CHOOSE i \in S : \A j \in S \ {i} : PrecedesInTable(i, j)
         IN <<EmojiAt(m)>> \o InTableOrder(S \ {m})

RECURSIVE DeclarationOrderFrom(_, _)
DeclarationOrderFrom(sels, p) ==
    IF p > Len(sels) THEN <<>>
    ELSE InOrder(ExpansionSet(sels[p]), 1) \o DeclarationOrderFrom(sels, p + 1)

RECURSIVE TableOrderFrom(_, _)
TableOrderFrom(sels, p) ==
    IF p > Len(sels) THEN <<>>
    ELSE InTableOrder(ExpansionSet(sels[p])) \o TableOrderFrom(sels, p + 1)

AllResolvable ==
    selectors # None /\ \A p \in 1..Len(Get(selectors)) : Resolvable(Get(selectors)[p])

(***************************************************************************)
(* C14, as stated: select returns the concatenation, in selector order, of *)
(* the expansions of its selectors, an entry once per selector that        *)
(* matches it, each expansion in the order of the declarations in the      *)
(* source.                                                                 *)
(***************************************************************************)
C14_Original ==
    AllResolvable =>
        selection = Some(DeclarationOrderFrom(Get(selectors), 1))

(***************************************************************************)
(* C14, amended: select returns the concatenation, in selector order, of   *)
(* the expansions of its selectors, an entry once per selector that        *)
(* matches it, each expansion in the order of the group table: groups and, *)
(* in a group, subgroups in the order of their first declaration, the      *)
(* entries of a subgroup in the order of their declarations.  This is the  *)
(* order of the declarations when the source declares no group and no      *)
(* subgroup of a group twice.                                              *)
(***************************************************************************)
C14_Concatenation ==
    AllResolvable =>
        /\ selection = Some(TableOrderFrom(Get(selectors), 1))
        /\ select_error = None
        /\ (\A i, j \in Declarations :
                (Listed(i) /\ Listed(j) /\ i < j) => PrecedesInTable(i, j)) =>
              selection = Some(DeclarationOrderFrom(Get(selectors), 1))

\* The call select('ALL', 'Man') returned three entries: the two of the source
\* and the one named "man" a second time.
C14_Witness ==
    /\ selectors = Some(<< <<"ALL">>, <<"Man">> >>)
    /\ selection # None
    /\ Len(Get(selection)) = 3
    /\ Get(selection)[3].name = <<"man">>
    /\ \E p \in 1..2 : Get(selection)[p] = Get(selection)[3]

(***************************************************************************)
(* The document graph as the claims speak of it.                           *)
(***************************************************************************)
HasObject(doc, key) == DictHas(doc, key) /\ DictHas(DictGet(doc, key), "value")
TypeIs(doc, key, type) ==
    /\ HasObject(doc, key)
    /\ DictHas(ValueOf(doc, key), "/Type")
    /\ DictGet(ValueOf(doc, key), "/Type") = type

\* The trailer names a Catalog, and the keys of the Catalog and of what follows.
HasCatalog(doc) ==
    /\ HasObject(doc, "trailer")
    /\ DictHas(ValueOf(doc, "trailer"), "/Root")
    /\ TypeIs(doc, Key(DictGet(ValueOf(doc, "trailer"), "/Root")), "/Catalog")
CatalogOf(doc) == Key(DictGet(ValueOf(doc, "trailer"), "/Root"))

\* The Catalog names a Pages object that has a /Kids list.
HasPages(doc) ==
    /\ HasCatalog(doc)
    /\ DictHas(ValueOf(doc, CatalogOf(doc)), "/Pages")
    /\ TypeIs(doc, Key(DictGet(ValueOf(doc, CatalogOf(doc)), "/Pages")), "/Pages")
    /\ DictHas(ValueOf(doc, Key(DictGet(ValueOf(doc, CatalogOf(doc)), "/Pages"))),
               "/Kids")
KidsOf(doc) ==
    DictGet(ValueOf(doc, Key(DictGet(ValueOf(doc, CatalogOf(doc)), "/Pages"))), "/Kids")

\* A well-formed document of one page, and the key of its Page object.
WellFormedOnePage(doc) ==
    /\ HasPages(doc)
    /\ Len(KidsOf(doc)) = 1
    /\ TypeIs(doc, Key(KidsOf(doc)[1]), "/Page")
PageOf(doc) == Key(KidsOf(doc)[1])

Terminal == at \in {"returned", "raised"}
CardinalityError == [type |-> "ValueError", msg |-> "pages instead of just one"]

(***************************************************************************)
(* C15: on a well-formed document of one page the patch does not raise; it *)
(* returns changed = true and the Page object has no /Group if the Page    *)
(* object had one, and else returns changed = false and the document is    *)
(* the one it was given.                                                   *)
(***************************************************************************)
C15_SinglePage ==
    WellFormedOnePage(original) =>
        /\ at # "raised"
        /\ at = "returned" =>
              IF DictHas(ValueOf(original, PageOf(original)), "/Group")
              THEN /\ changed = Some(TRUE)
                   /\ ~DictHas(ValueOf(document, PageOf(original)), "/Group")
              ELSE /\ changed = Some(FALSE)
                   /\ document = original

C15_Witness ==
    /\ at = "returned"
    /\ WellFormedOnePage(original)
    /\ DictHas(ValueOf(original, PageOf(original)), "/Group")
    /\ changed = Some(TRUE)

(***************************************************************************)
(* C16, as stated: when the /Kids list of the Pages object has no entry or *)
(* more than one, the patch fails with the error that reports the wrong    *)
(* page count and leaves the document as it was.                           *)
(***************************************************************************)
C16_Original ==
    (Terminal /\ HasPages(original) /\ Len(KidsOf(original)) # 1) =>
        /\ at = "raised"
        /\ patch_error = Some(CardinalityError)
        /\ document = original

(***************************************************************************)
(* C17: on a document that is not a well-formed document of one page (the  *)
(* trailer, the Catalog, the Pages object or the kid is missing, has no    *)
(* value, has another type or lacks the key that names the next object)    *)
(* the patch never returns: every step it can take ends in an exception,   *)
(* and the document is the one it was given in every state but the one     *)
(* after a return, so the deletion comes after all resolutions and type    *)
(* checks.                                                                 *)
(***************************************************************************)
C17_NoPartialMutation ==
    /\ ~WellFormedOnePage(original) => at # "returned" /\ changed = None
    /\ at # "returned" => document = original
    /\ document # original => WellFormedOnePage(original) /\ page = Some(PageOf(original))
    /\ at = "raised" => patch_error # None /\ changed = None
    /\ at \in {"trailer", "root", "pages", "page", "group"} =>
          ENABLED (ResolveTrailer \/ ResolveRoot \/ ResolvePages \/ ResolvePage
                     \/ RemoveGroup)

\* The patch raised at the kid, an object of another type that has a /Group.
C17_Witness ==
    /\ at = "raised"
    /\ pages = Some(<<"3 0 R">>)
    /\ Get(patch_error).msg = "references object of type"
    /\ DictHas(ValueOf(document, "obj:3 0 R"), "/Group")

(***************************************************************************)
(* C18: when the patch returns changed = true, the document differs from   *)
(* the one it was given by the /Group key of the resolved Page object      *)
(* only: the same keys in the same order, every other object as it was,    *)
(* and the Page object with its other keys and values as they were.        *)
(***************************************************************************)
C18_OnlyGroupRemoved ==
    changed = Some(TRUE) =>
        /\ Len(document) = Len(original)
        /\ \A i \in 1..Len(original) :
              /\ document[i].k = original[i].k
              /\ IF original[i].k # PageOf(original)
                 THEN document[i] = original[i]
                 ELSE /\ DictKeys(document[i].v) = DictKeys(original[i].v)
                      /\ Len(DictGet(document[i].v, "value"))
                            = Len(DictGet(original[i].v, "value")) - 1
                      /\ DictGet(document[i].v, "value")
                            = SelectSeq(DictGet(original[i].v, "value"),
                                        LAMBDA e : e.k # "/Group")

\* The patch removed the /Group of the Page object, and two other objects, one
\* of them of type /Page, have a /Group.
C18_Witness ==
    /\ changed = Some(TRUE)
    /\ PageOf(original) = "obj:4 0 R"
    /\ TypeIs(document, "obj:3 0 R", "/Page")
    /\ DictHas(ValueOf(document, "obj:3 0 R"), "/Group")
    /\ ~DictHas(ValueOf(document, "obj:4 0 R"), "/Group")

(***************************************************************************)
(* C19: a further call of the patch on a document that a call has returned *)
(* from does not raise, returns changed = false and leaves the document as *)
(* the call before left it.                                                *)
(***************************************************************************)
C19_Idempotent ==
    /\ (Len(reports) >= 1 /\ reports[1] # "raised") => at # "raised"
    /\ \A i \in 2..Len(reports) : reports[i] = "unchanged"
    /\ (Len(reports) >= 2 /\ at = "returned") =>
          /\ changed = Some(FALSE)
          /\ document = original

C19_Witness ==
    /\ reports = <<"changed", "unchanged">>
    /\ at = "returned"
    /\ ~DictHas(ValueOf(document, PageOf(document)), "/Group")

(***************************************************************************)
(* C20, as stated: in each driver a failure of the patch of one document   *)
(* ends the patch of that document only: the driver reports it and has     *)
(* every remaining document patched, so that when main is left every       *)
(* document has an outcome.                                                *)
(***************************************************************************)
C20_Original ==
    /\ driver_at = "exit" => Len(reports) = Len(files)
    /\ (at = "raised" /\ next_file < Len(files)) => driver_at = "loop"

(***************************************************************************)
(* The group table after a successful parse.                               *)
(***************************************************************************)

\* The sequence the group table of reg holds for subgroup s of group g.
SubgroupOf(reg, g, s) == DictGet(DictGet(reg.group_table, g), s)

(***************************************************************************)
(* C22: after a successful parse every component or fully-qualified entry  *)
(* declared in the source, those of the last subgroup of the file          *)
(* included, is in the group table under the group and the subgroup that   *)
(* were current at its data line, and the sequence of every subgroup is    *)
(* the entries declared in it, in the order of their data lines.           *)
(***************************************************************************)
C22_LastSubgroupClosed ==
    Succeeded =>
        /\ \A i \in Declarations : Listed(i) =>
              /\ GroupAt(i) # None /\ SubgroupAt(i) # None
              /\ DictHas(Get(registry).group_table, Get(GroupAt(i)))
              /\ DictHas(DictGet(Get(registry).group_table, Get(GroupAt(i))),
                         Get(SubgroupAt(i)))
              /\ \E k \in 1..Len(SubgroupOf(Get(registry), Get(GroupAt(i)),
                                            Get(SubgroupAt(i)))) :
                    SubgroupOf(Get(registry), Get(GroupAt(i)),
                               Get(SubgroupAt(i)))[k] = EmojiAt(i)
        /\ \A g \in DeclaredGroups : \A s \in DeclaredSubgroups(g) :
              /\ DictHas(Get(registry).group_table, g)
              /\ DictHas(DictGet(Get(registry).group_table, g), s)
              /\ SubgroupOf(Get(registry), g, s) = InOrder(ListedIn(g, s), 1)

\* A parse succeeded whose source ends with the second data line of a subgroup
\* that no later group or subgroup line closes.
C22_Witness ==
    /\ Succeeded
    /\ Len(source) >= 2
    /\ Len(source) \in Declarations /\ Listed(Len(source))
    /\ Len(source) - 1 \in Declarations /\ Listed(Len(source) - 1)
    /\ Len(SubgroupOf(Get(registry), Get(GroupAt(Len(source))),
                      Get(SubgroupAt(Len(source))))) = 2

(***************************************************************************)
(* Group lines, subgroup lines and data lines in the states of the parser. *)
(***************************************************************************)
\* The last line read, and whether run() is still in its read loop after it.
LastLine == Len(source)
Reading == pc = "run"
\* Line i is the line run() failed at.
FailedAt(i) == ReadFailed /\ i = Len(source)

(***************************************************************************)
(* C23, as stated: a group line read while a subgroup is in progress is    *)
(* fatal, the parser does not enter the group.                             *)
(***************************************************************************)
C23_Original ==
    \A i \in 1..Len(source) :
        (source[i].kind = "group" /\ SubgroupAt(i) # None) => FailedAt(i)

(***************************************************************************)
(* C23, amended: a group line is never an error.  Read while a subgroup is *)
(* in progress, it first stores that subgroup, with the entries declared   *)
(* in it in source order, in its group, and then enters the group of the   *)
(* line with no subgroup current.                                          *)
(***************************************************************************)
C23_GroupClosesSubgroup ==
    \A i \in 1..Len(source) :
        (source[i].kind = "group" /\ SubgroupAt(i) # None) =>
            /\ ~FailedAt(i)
            /\ (Reading /\ i = LastLine) =>
                  /\ group_name = Some(to_group(source[i].name))
                  /\ subgroup_name = None
                  /\ DictHas(group_table, Get(GroupAt(i)))
                  /\ DictHas(DictGet(group_table, Get(GroupAt(i))), Get(SubgroupAt(i)))
                  /\ DictGet(DictGet(group_table, Get(GroupAt(i))), Get(SubgroupAt(i)))
                        = InOrder(ListedIn(Get(GroupAt(i)), Get(SubgroupAt(i))), 1)

\* A group line was just read while a subgroup with an entry was in progress,
\* and it names another group than the one of that subgroup.
C23_Witness ==
    /\ Reading /\ LastLine >= 1
    /\ source[LastLine].kind = "group"
    /\ SubgroupAt(LastLine) # None
    /\ ListedIn(Get(GroupAt(LastLine)), Get(SubgroupAt(LastLine))) # {}
    /\ group_name # GroupAt(LastLine)

NoGroupMsg == "subgroup without prior group declaration"

(***************************************************************************)
(* C24: a subgroup line read before any group line is fatal (the error     *)
(* names its line); a subgroup line read after a group line succeeds and   *)
(* makes its subgroup the current one of the group entered last.           *)
(***************************************************************************)
C24_SubgroupNeedsGroup ==
    \A i \in 1..Len(source) : source[i].kind = "subgroup" =>
        IF GroupAt(i) = None
        THEN /\ FailedAt(i)
             /\ Get(error) = [lineno |-> Some(i), msg |-> NoGroupMsg]
             /\ registry = None
        ELSE /\ ~FailedAt(i)
             /\ (Reading /\ i = LastLine) =>
                   /\ group_name = GroupAt(i)
                   /\ subgroup_name = Some(to_subgroup(source[i].name))
                   /\ subgroup # None

\* A subgroup line was just read after the second group line of the source and
\* its subgroup is current in the group of that line.
C24_Witness ==
    /\ Reading /\ LastLine >= 1 /\ source[LastLine].kind = "subgroup"
    /\ Cardinality(GroupLinesBefore(LastLine)) >= 2
    /\ group_name = GroupAt(LastLine)
    /\ subgroup_name = Some(to_subgroup(source[LastLine].name))

\* run() reads a data line as line i.
ReadsDataLine(i) ==
    /\ Reading
    /\ i = Len(source) + 1
    /\ Len(source') = i
    /\ source'[i].kind = "data"

(***************************************************************************)
(* C25: a data line read while no subgroup is active (before any subgroup  *)
(* line, or after a group line that no subgroup line follows) is fatal and *)
(* registers nothing: run() raises, the tables and the parser's position   *)
(* stay as they were and no registry is made; a data line with a version   *)
(* that is a number raises the error of the missing subgroup at its line.  *)
(***************************************************************************)
C25_DataNeedsSubgroup ==
    [][\A i \in 1..MaxLines :
          (ReadsDataLine(i) /\ SubgroupAt(i) = None) =>
              /\ pc' = "error"
              /\ UNCHANGED <<tables, position>>
              /\ registry' = None
              /\ FloatOk(source'[i].version) =>
                    error' = ParserError(i, NoSubgroupMsg)]_vars

\* A run failed at a data line that follows a group line with no subgroup line
\* in between, after an earlier subgroup had registered an emoji.
C25_Witness ==
    /\ LastLine >= 1 /\ FailedAt(LastLine)
    /\ source[LastLine].kind = "data"
    /\ GroupAt(LastLine) # None /\ SubgroupAt(LastLine) = None
    /\ Get(error).msg = NoSubgroupMsg
    /\ codepoint_table # <<>>

\* run() reads, as line i, a minimally-qualified or unqualified data line whose
\* version is a number.
ReadsNotQualified(i) ==
    /\ ReadsDataLine(i)
    /\ source'[i].status \in {MINIMALLY_QUALIFIED, UNQUALIFIED}
    /\ FloatOk(source'[i].version)
\* What can stand against such a line: no subgroup is active, an earlier line
\* declares its codepoints, or it is in the component group.
Unacceptable(i) ==
    \/ SubgroupAt(i) = None
    \/ \E j \in Declarations : CodepointsAt(j) = to_codepoints(source'[i].codepoints)
    \/ GroupAt(i) = Some(<<"component">>)

(***************************************************************************)
(* C28: the fully-qualified peer is not looked for when a line is          *)
(* registered.  A minimally-qualified or unqualified data line is accepted *)
(* unless no subgroup is active, its codepoints are declared already or it *)
(* is in the component group, whether or not its name is registered; it    *)
(* adds one entry under its codepoints to the codepoint table and leaves   *)
(* the name table, the group table and the subgroup in progress alone.     *)
(***************************************************************************)
C28_PeerCheckDeferred ==
    [][\A i \in 1..MaxLines : ReadsNotQualified(i) =>
          IF Unacceptable(i)
          THEN /\ pc' = "error"
               /\ Get(error').msg # NoPeerMsg
               /\ UNCHANGED <<tables, position>>
          ELSE /\ pc' = "run"
               /\ codepoint_table' =
                     Append(codepoint_table,
                            [k |-> to_codepoints(source'[i].codepoints),
                             v |-> parse_line(source'[i]).emoji])
               /\ UNCHANGED <<name_table, group_table, position>>]_vars

\* A parse succeeded in which a minimally-qualified or unqualified line comes
\* before the fully-qualified line of its name.
C28_Witness ==
    /\ Succeeded
    /\ \E i, j \in Declarations :
          /\ i < j
          /\ NotQualified(i) /\ StatusAt(j) = FULLY_QUALIFIED
          /\ NameAt(i) = NameAt(j)

(***************************************************************************)
(* Sources that declare a group under several names: 'People & Body' and   *)
(* its short names 'Body' and 'people' all stand for people-and-body.      *)
(***************************************************************************)
ReopenLines ==
    {GroupLine(t) : t \in {<<"People", " ", "&", " ", "Body">>, <<"Body">>,
                           <<"people">>, <<"Component">>}}
    \cup {SubgroupLine(t) : t \in SubgroupTexts}
    \cup {DataLine(<< <<1, 15, 6, 0, 0>> >>, FULLY_QUALIFIED, <<"Man">>),
          DataLine(<< <<1, 15, 6, 0, 1>> >>, FULLY_QUALIFIED,
                   <<"palm", " ", "up", " ", "hand">>),
          DataLine(<< <<1, 15, 6, 0, 2>> >>, COMPONENT, <<"red", " ", "hair">>)}

NextReopen ==
    \/ ReadLineOf(ReopenLines) /\ UNCHANGED <<nameVars, selectVars, tableVars, patchVars>>
    \/ EndOfFile /\ UNCHANGED <<nameVars, selectVars, tableVars, patchVars>>
    \/ Repoint /\ UNCHANGED <<nameVars, selectVars, tableVars, patchVars>>
    \/ Return /\ UNCHANGED <<nameVars, selectVars, tableVars, patchVars>>

SpecReopen == Init /\ [][NextReopen]_vars

\* The sequence the parser holds for subgroup s of group g: the list in progress
\* if it is the current subgroup, else what the group table has (nothing if it
\* has none).
Held(g, s) ==
    IF group_name = Some(g) /\ subgroup_name = Some(s) THEN Get(subgroup)
    ELSE IF DictHas(group_table, g) /\ DictHas(DictGet(group_table, g), s)
    THEN DictGet(DictGet(group_table, g), s)
    ELSE <<>>

(***************************************************************************)
(* C29: a group line or subgroup line whose normalized name was declared   *)
(* before (also under another source name with the same alias target)      *)
(* takes up the group or subgroup of that name.  At every point of the     *)
(* parse, the sequence held for a declared subgroup of a declared group is *)
(* that of all entries registered in it so far, under whichever            *)
(* declaration, in the order of their data lines.                          *)
(***************************************************************************)
C29_Reopened ==
    \A g \in DeclaredGroups : \A s \in DeclaredSubgroups(g) :
        Held(g, s) = InOrder(ListedIn(g, s) \cap Registered, 1)

\* A parse succeeded whose source declares a group under two different names,
\* the same subgroup under each, and an entry in each of the two.
C29_Witness ==
    /\ Succeeded
    /\ \E i, j \in Declarations :
          /\ i < j
          /\ \E h \in GroupLinesBefore(j) :
                /\ i < h
                /\ \E k \in GroupLinesBefore(i) :
                      /\ source[k].name # source[h].name
                      /\ to_group(source[k].name) = to_group(source[h].name)
          /\ GroupAt(i) = GroupAt(j) /\ SubgroupAt(i) = SubgroupAt(j)
          /\ SubgroupOf(Get(registry), Get(GroupAt(i)), Get(SubgroupAt(i)))
                = <<EmojiAt(i), EmojiAt(j)>>

(***************************************************************************)
(* The three tables of a registry.                                         *)
(***************************************************************************)
NameValues(reg) == {reg.name_table[i].v : i \in 1..Len(reg.name_table)}
CodepointValues(reg) == {reg.codepoint_table[i].v : i \in 1..Len(reg.codepoint_table)}
GroupEntries(reg) == {EntryAt(reg, t) : t \in Places(reg)}
CodepointKeys(reg) == {reg.codepoint_table[i].k : i \in 1..Len(reg.codepoint_table)}

(***************************************************************************)
(* C30: after a successful parse the values of the name table are the      *)
(* entries of the subgroups of the group table, each of them is at one     *)
(* place of one subgroup and is the value the codepoint table has under    *)
(* its own codepoints, every value of the codepoint table is a value of    *)
(* the name table, and the keys of the codepoint table are the codepoint   *)
(* sequences that the data lines of the source declare.                    *)
(***************************************************************************)
C30_TablesConsistent ==
    Succeeded =>
        /\ NameValues(Get(registry)) = GroupEntries(Get(registry))
        /\ \A e \in GroupEntries(Get(registry)) :
              /\ Cardinality(PlacesOf(Get(registry), e)) = 1
              /\ DictHas(Get(registry).codepoint_table, e.codepoints)
              /\ DictGet(Get(registry).codepoint_table, e.codepoints) = e
        /\ CodepointValues(Get(registry)) \subseteq NameValues(Get(registry))
        /\ CodepointKeys(Get(registry)) = {CodepointsAt(i) : i \in Declarations}

\* A parse succeeded whose source declares a fully-qualified emoji and a
\* minimally-qualified or unqualified one of the same name.
C30_Witness ==
    /\ Succeeded
    /\ Len(Get(registry).codepoint_table) = 2
    /\ \E i, j \in Declarations :
          NotQualified(i) /\ StatusAt(j) = FULLY_QUALIFIED /\ NameAt(i) = NameAt(j)

(***************************************************************************)
(* Skin tone phrases in the names to_name is given and returns.            *)
(***************************************************************************)
\* s contains the text m.
Contains(s, m) == \E i \in 1..(Len(s) - Len(m) + 1) : SubSeq(s, i, i + Len(m) - 1) = m
\* The name as the skin tone substitutions find it: lowercase, punctuation
\* stripped, separators collapsed.
Separated(text) == SeparatorsSub(PunctuationSub(lower(text)))

(***************************************************************************)
(* C26: the specific skin tone phrases are replaced before the general     *)
(* ones.  to_name of a name that contains medium-dark-skin-tone contains   *)
(* darker, and it does not contain medium-darkest unless the name also has *)
(* medium-skin-tone followed by dark-skin-tone (two tones, which do become *)
(* medium-darkest); likewise medium-light-skin-tone gives lighter and not  *)
(* medium-lightest.                                                        *)
(***************************************************************************)
C26_SpecificFirst ==
    names # <<>> =>
        /\ Contains(Separated(value), <<"medium", "-", "dark">> \o SkinTone) =>
              /\ Contains(names[1], <<"dark", "er">>)
              /\ Contains(Separated(value),
                          <<"medium">> \o SkinTone \o <<"-", "dark">> \o SkinTone)
                 \/ ~Contains(names[1], <<"medium", "-", "dark", "est">>)
        /\ Contains(Separated(value), <<"medium", "-", "light">> \o SkinTone) =>
              /\ Contains(names[1], <<"light", "er">>)
              /\ Contains(Separated(value),
                          <<"medium">> \o SkinTone \o <<"-", "light">> \o SkinTone)
                 \/ ~Contains(names[1], <<"medium", "-", "light", "est">>)

\* to_name was called on a text that reads medium_dark-skin-tone or
\* medium dark-skin-tone and returned darker.
C26_Witness ==
    /\ names # <<>>
    /\ value \in {<<"medium", "_", "dark">> \o SkinTone, <<"medium", " ", "dark">> \o SkinTone}
    /\ names[1] = <<"dark", "er">>

(***************************************************************************)
(* LatexCommand and the table file.  A line of the file is a command with  *)
(* its arguments: the group, the subgroup, the name and the codepoints it  *)
(* names (empty where it names none), and the form the codepoints are      *)
(* written in: "display" for the characters themselves (str(emoji)),       *)
(* "chars" for the \char"XXXX notation (latex_chars).  An empty command is *)
(* an empty line.                                                          *)
(***************************************************************************)
LatexLine(cmd, group, sub, name, codepoints, form) ==
    [cmd |-> cmd, group |-> group, subgroup |-> sub, name |-> name,
     codepoints |-> codepoints, form |-> form]

EmptyLine == LatexLine("", <<>>, <<>>, <<>>, <<>>, "")
ProvidesFile == LatexLine("ProvidesFile", <<>>, <<>>, <<>>, <<>>, "")
ifextra == LatexLine("ifEmojiExtra", <<>>, <<>>, <<>>, <<>>, "")
fi == LatexLine("fi", <<>>, <<>>, <<>>, <<>>, "")
begin_group(group) == LatexLine("EmojiBeginGroup", group, <<>>, <<>>, <<>>, "")
begin_subgroup(group, sub) == LatexLine("EmojiBeginSubgroup", group, sub, <<>>, <<>>, "")
define(name, codepoints, form) == LatexLine("DefineEmoji", <<>>, <<>>, name, codepoints, form)
end_subgroup(group, sub) == LatexLine("EmojiEndSubgroup", group, sub, <<>>, <<>>, "")
end_group(group) == LatexLine("EmojiEndGroup", group, <<>>, <<>>, <<>>, "")

\* Emoji.has_compound_name: '-' in self.name
has_compound_name(emoji) == \E i \in 1..Len(emoji.name) : emoji.name[i] = "-"

\* Emoji.latex_table_entry
latex_table_entry(emoji) ==
    define(emoji.name, emoji.codepoints,
           IF emoji.name = <<"keycap", "-", "hash">> THEN "chars" ELSE "display")

\* The two definitions of the extra group that every table ends with.
Extra == <<"extra">>
ExtraLines ==
    << EmptyLine, ifextra, begin_group(Extra), begin_subgroup(Extra, Extra),
       define(<<"lingchi">>, <<>>, "display"), define(<<"YHWH">>, <<>>, "display"),
       end_subgroup(Extra, Extra), end_group(Extra), fi >>

(***************************************************************************)
(* Registry.write_latex_table                                              *)
(***************************************************************************)
\* _is_subgroup_included: some emoji of the subgroup has selected codepoints.
is_subgroup_included(entries, selected) ==
    \E i \in 1..Len(entries) : entries[i].codepoints \in selected

\* any(include.values()) for the subgroups of a group
AnyIncluded(subgroups, selected) ==
    \E i \in 1..Len(subgroups) : is_subgroup_included(subgroups[i].v, selected)

\* A filter that lets every emoji of an included subgroup through.
ChosenAll(entries, selected) == entries

\* The emoji of a subgroup that the inner loop does not skip.
RECURSIVE Chosen(_, _)
Chosen(entries, selected) ==
    IF entries = <<>> THEN <<>>
    ELSE (IF Head(entries).codepoints \in selected THEN <<Head(entries)>> ELSE <<>>)
         \o Chosen(Tail(entries), selected)

\* The lines of the subgroups of a group; is_first is the flag of that name.
RECURSIVE SubgroupsLines(_, _, _, _)
SubgroupsLines(group, subgroups, selected, is_first) ==
    IF subgroups = <<>> THEN <<>>
    ELSE IF ~is_subgroup_included(Head(subgroups).v, selected)
    THEN SubgroupsLines(group, Tail(subgroups), selected, is_first)
    ELSE (IF is_first THEN <<>> ELSE <<EmptyLine>>)
         \o <<begin_subgroup(group, Head(subgroups).k)>>
         \o [i \in 1..Len(Chosen(Head(subgroups).v, selected)) |->
                latex_table_entry(Chosen(Head(subgroups).v, selected)[i])]
         \o <<end_subgroup(group, Head(subgroups).k)>>
         \o SubgroupsLines(group, Tail(subgroups), selected, FALSE)

\* The lines of the groups of the group table.
RECURSIVE GroupsLines(_, _)
GroupsLines(group_tbl, selected) ==
    IF group_tbl = <<>> THEN <<>>
    ELSE IF ~AnyIncluded(Head(group_tbl).v, selected)
    THEN GroupsLines(Tail(group_tbl), selected)
    ELSE <<EmptyLine, EmptyLine, begin_group(Head(group_tbl).k)>>
         \o SubgroupsLines(Head(group_tbl).k, Head(group_tbl).v, selected, TRUE)
         \o <<end_group(Head(group_tbl).k)>>
         \o GroupsLines(Tail(group_tbl), selected)

\* all_emoji: the emoji appended where their lines are written.
RECURSIVE SubgroupsEmoji(_, _)
SubgroupsEmoji(subgroups, selected) ==
    IF subgroups = <<>> THEN <<>>
    ELSE Chosen(Head(subgroups).v, selected) \o SubgroupsEmoji(Tail(subgroups), selected)

RECURSIVE GroupsEmoji(_, _)
GroupsEmoji(group_tbl, selected) ==
    IF group_tbl = <<>> THEN <<>>
    ELSE SubgroupsEmoji(Head(group_tbl).v, selected)
         \o GroupsEmoji(Tail(group_tbl), selected)

\* codepoint_selection
codepoint_selection(emoji_set) == {emoji.codepoints : emoji \in emoji_set}

\* The file write_latex_table leaves and the list it returns; a dry run writes
\* to os.devnull and leaves no file.
write_latex_table(reg, emoji_set, dry) ==
    [file |-> IF dry THEN None
              ELSE Some(<<ProvidesFile>>
                        \o GroupsLines(reg.group_table, codepoint_selection(emoji_set))
                        \o ExtraLines),
     all_emoji |-> GroupsEmoji(reg.group_table, codepoint_selection(emoji_set))]

\* set(list)
SetOf(list) == {list[i] : i \in 1..Len(list)}

\* The inventories of the model: no PDF file, or the file of one emoji.
Inventories(reg) == {{}} \cup {{reg.name_table[i].v} : i \in 1..Len(reg.name_table)}

\* main, from create_inventory to the call of write_latex_table with the
\* requested and the existing emoji.
WriteLatexTable ==
    /\ pc = "done"
    /\ selection # None
    /\ all_emoji = None
    /\ \E inventory \in Inventories(Get(registry)), dry \in BOOLEAN :
          LET emoji_set == SetOf(Get(selection)) \cup inventory
              result == write_latex_table(Get(registry), emoji_set, dry)
          IN /\ existing' = inventory
             /\ dry_run' = dry
             /\ emoji_selection' = Some(emoji_set)
             /\ written' = result.file
             /\ all_emoji' = Some(result.all_emoji)
    /\ UNCHANGED <<parserVars, nameVars, selectVars, patchVars>>

(***************************************************************************)
(* The source files and selectors of the model's table writers: two groups *)
(* with two subgroups each, a component, two fully-qualified emoji, one of *)
(* them the keycap of '#'.                                                 *)
(***************************************************************************)
TableLines ==
    {GroupLine(t) : t \in GroupTexts}
    \cup {SubgroupLine(t) : t \in SubgroupTexts}
    \cup {DataLine(<< <<1, 15, 6, 0, 0>> >>, COMPONENT, <<"Man">>),
          DataLine(<< <<1, 15, 6, 0, 1>> >>, FULLY_QUALIFIED,
                   <<"palm", " ", "up", " ", "hand">>),
          DataLine(<< <<2, 3>>, <<15, 14, 0, 15>> >>, FULLY_QUALIFIED,
                   <<"keycap", ":", " ", "#">>)}

TableSelectors == { <<"ALL">>, <<"man">>, <<"palm", "-", "up">> }

RECURSIVE TableSelectorLists(_)
TableSelectorLists(n) ==
    IF n = 0 THEN {<<>>}
    ELSE TableSelectorLists(n - 1)
           \cup {Append(l, sel) : l \in TableSelectorLists(n - 1), sel \in TableSelectors}

NextTable ==
    \/ ReadLineOf(TableLines) /\ UNCHANGED <<nameVars, selectVars, tableVars, patchVars>>
    \/ EndOfFile /\ UNCHANGED <<nameVars, selectVars, tableVars, patchVars>>
    \/ Repoint /\ UNCHANGED <<nameVars, selectVars, tableVars, patchVars>>
    \/ Return /\ UNCHANGED <<nameVars, selectVars, tableVars, patchVars>>
    \/ SelectOf(TableSelectorLists(MaxSelectors))
    \/ WriteLatexTable

SpecTable == Init /\ [][NextTable]_vars

(***************************************************************************)
(* The table file as the claims speak of it.                               *)
(***************************************************************************)
\* write_latex_table has returned; it left a file (no dry run).
TableReturned == all_emoji # None
TableWritten == all_emoji # None /\ written # None

\* The names that the DefineEmoji lines of lines define, in order.
RECURSIVE DefinedNames(_)
DefinedNames(lines) ==
    IF lines = <<>> THEN <<>>
    ELSE (IF Head(lines).cmd = "DefineEmoji" THEN <<Head(lines).name>> ELSE <<>>)
         \o DefinedNames(Tail(lines))

\* The lines open and close groups and subgroups in proper nesting, g and s
\* being the group and the subgroup that are open before the first of them: a
\* group begins when none is open, a subgroup begins in its open group when no
\* subgroup is open, a definition stands in an open subgroup, an end marker
\* closes the group or subgroup of its own name, and nothing stays open.
RECURSIVE Nested(_, _, _)
Nested(lines, g, s) ==
    IF lines = <<>> THEN g = None /\ s = None
    ELSE CASE Head(lines).cmd = "EmojiBeginGroup" ->
                /\ g = None /\ s = None
                /\ Nested(Tail(lines), Some(Head(lines).group), None)
           [] Head(lines).cmd = "EmojiBeginSubgroup" ->
                /\ g = Some(Head(lines).group) /\ s = None
                /\ Nested(Tail(lines), g, Some(Head(lines).subgroup))
           [] Head(lines).cmd = "DefineEmoji" ->
                /\ g # None /\ s # None
                /\ Nested(Tail(lines), g, s)
           [] Head(lines).cmd = "EmojiEndSubgroup" ->
                /\ g = Some(Head(lines).group) /\ s = Some(Head(lines).subgroup)
                /\ Nested(Tail(lines), g, None)
           [] Head(lines).cmd = "EmojiEndGroup" ->
                /\ g = Some(Head(lines).group) /\ s = None
                /\ Nested(Tail(lines), None, None)
           [] OTHER -> Nested(Tail(lines), g, s)

\* The lines of the file that begin a group / a subgroup of the registry.
GroupMarkers ==
    {k \in 1..Len(Get(written)) :
        Get(written)[k].cmd = "EmojiBeginGroup" /\ Get(written)[k].group # Extra}
SubgroupMarkers ==
    {k \in 1..Len(Get(written)) :
        Get(written)[k].cmd = "EmojiBeginSubgroup" /\ Get(written)[k].group # Extra}
\* The places of the group table that hold a selected emoji.
SelectedPlaces ==
    {t \in Places(Get(registry)) : EntryAt(Get(registry), t) \in Get(emoji_selection)}
GroupKey(t) == Get(registry).group_table[t[1]].k
SubgroupKey(t) == Get(registry).group_table[t[1]].v[t[2]].k

(***************************************************************************)
(* C27: write_latex_table returns the selected emoji, each once, in the    *)
(* order of the group table (groups, then subgroups, then entries),        *)
(* whatever the order and the multiplicity of the requested list.  The     *)
(* file it writes (none in a dry run) defines these emoji in this order    *)
(* and then those of the fixed extra group, begins a group or subgroup of  *)
(* the registry exactly once if it holds a selected emoji and not at all   *)
(* if it holds none, and has every begin marker closed by the end marker   *)
(* of the same name, subgroups within groups and definitions within        *)
(* subgroups.                                                              *)
(***************************************************************************)
C27_TableInDisplayOrder ==
    TableReturned =>
        /\ {Get(all_emoji)[i] : i \in 1..Len(Get(all_emoji))} = Get(emoji_selection)
        /\ \A i, j \in 1..Len(Get(all_emoji)) : i < j =>
              \E t \in PlacesOf(Get(registry), Get(all_emoji)[i]) :
              \E u \in PlacesOf(Get(registry), Get(all_emoji)[j]) : Before(t, u)
        /\ TableWritten =>
              /\ DefinedNames(Get(written))
                    = [i \in 1..Len(Get(all_emoji)) |-> Get(all_emoji)[i].name]
                      \o << <<"lingchi">>, <<"YHWH">> >>
              /\ \A k \in GroupMarkers : \E t \in SelectedPlaces :
                    GroupKey(t) = Get(written)[k].group
              /\ \A k \in SubgroupMarkers : \E t \in SelectedPlaces :
                    /\ GroupKey(t) = Get(written)[k].group
                    /\ SubgroupKey(t) = Get(written)[k].subgroup
              /\ \A t \in SelectedPlaces :
                    /\ Cardinality({k \in GroupMarkers :
                                       Get(written)[k].group = GroupKey(t)}) = 1
                    /\ Cardinality({k \in SubgroupMarkers :
                                       /\ Get(written)[k].group = GroupKey(t)
                                       /\ Get(written)[k].subgroup = SubgroupKey(t)}) = 1
              /\ Nested(Get(written), None, None)

\* A table was written for a request that lists two emoji in the reverse of
\* their registry order.
C27_Witness ==
    /\ TableWritten
    /\ selection # None /\ Len(Get(selection)) = 2
    /\ Len(Get(all_emoji)) = 2
    /\ Get(selection)[1] = Get(all_emoji)[2]
    /\ Get(selection)[2] = Get(all_emoji)[1]

(***************************************************************************)
(* The two idioms of scripts/emo.py and src/emo.py: the prefix of the      *)
(* table entry they build for an emoji, \expandafter\def\csname ...        *)
(* \endcsname for a name with a hyphen and \def\emo@emoji@... for a name   *)
(* without.                                                                *)
(***************************************************************************)
prefix(emoji) == IF has_compound_name(emoji) THEN "expandafter-def-csname" ELSE "def"

\* The lines of the file that define an emoji of the registry.
EmojiLines ==
    {k \in 1..Len(Get(written)) :
        /\ Get(written)[k].cmd \notin {"", "ProvidesFile", "ifEmojiExtra", "fi",
                                       "EmojiBeginGroup", "EmojiBeginSubgroup",
                                       "EmojiEndSubgroup", "EmojiEndGroup"}
        /\ Get(written)[k].name \notin {<<"lingchi">>, <<"YHWH">>}}

(***************************************************************************)
(* C21, as stated: every emoji line of the generated table has the idiom   *)
(* that goes with its name, the csname-based definition for a name with a  *)
(* hyphen and the plain \def for a name without, and never the other.      *)
(***************************************************************************)
C21_Original ==
    TableWritten =>
        \A k \in EmojiLines : Get(written)[k].cmd = prefix(Get(written)[k])

=============================================================================
